---- MODULE Spec2Model ----
(***************************************************************************)
(* A model of the research-synthesis pipeline of gemini3-web-studio:       *)
(*   - router.py: analyze_question_for_routing and                        *)
(*     route_question_to_pipeline (the Classification -> PipelineConfig    *)
(*     decision table);                                                    *)
(*   - research_ir.py: validate_research_ir (the ResearchIR normalizer);   *)
(*   - app.py: extract_facts_and_risks_v2 (the IR extractor).              *)
(* Python dictionaries are functions whose DOMAIN is the set of keys that  *)
(* are present, so dict.get and dict.setdefault keep their meaning.        *)
(***************************************************************************)
EXTENDS Integers, Sequences, FiniteSets, TLC

VARIABLES
    rpc,             \* router: position of the caller ("idle", "classified", "branched", "routed", "raised")
    renv,            \* router: what the environment did to analyze_question_for_routing
    classification,  \* router: the classification dict handed to route_question_to_pipeline
    pipeline,        \* router: the pipeline dict being built by route_question_to_pipeline
    ir_in,           \* normalizer: the dictionary first handed to validate_research_ir
    ir_arg,          \* normalizer: the argument of the next call of validate_research_ir
    v_pass,          \* normalizer: the number of calls made so far
    v_now,           \* normalizer: the clock datetime.now() reads
    v_result,        \* normalizer: what the last call returned (or that it raised)
    v_prev,          \* normalizer: what the call before the last returned
    x_pc,            \* extractor: position in extract_facts_and_risks_v2 ("idle", "parse", "parsed", "returned", "raised")
    x_raw,           \* extractor: raw_text, the tokens of the provider's answer
    x_json,          \* extractor: json_text, the tokens handed to json.loads
    x_attempt,       \* extractor: the loop variable of the parse loop
    x_usage,         \* extractor: usage_dict
    x_ir,            \* extractor: ir_dict, what json.loads returned
    x_ret,           \* extractor: the tuple returned to the caller
    p_pc,            \* pipeline: the stage the main thread of the deep-thinking run is at
    p_cfg,           \* pipeline: response_mode, mode_category and the API keys of the run
    p_phase1,        \* pipeline: research_text, current_ir, fact_summary and the v1 fallback
    t_state,         \* pipeline: each consultant task ("idle", "running", "done")
    t_result,        \* pipeline: the dict each consultant task returned
    p_pool,          \* pipeline: the statuses and thoughts the main thread has collected
    p_synth,         \* pipeline: the synthesis retry loop (attempt, waits, draft_answer, synthesis_resp)
    p_review,        \* pipeline: the review retry loop and the secondary review
    final_answer,    \* pipeline: final_answer
    messages,        \* pipeline: messages, the list of the current session
    prompt,          \* pipeline: the question entered in the chat input
    stop_generation, \* pipeline: stop_generation, as computed when the script started
    total_cost,      \* pipeline: usage_stats["total_cost_usd"] against MAX_BUDGET_USD ("below", "reached")
    p_direct,        \* pipeline: what the calls of the non-research path did
    sessions_file    \* pipeline: the messages of the session as last written to SESSIONS_FILE

routerVars == <<rpc, renv, classification, pipeline>>

irVars == <<ir_in, ir_arg, v_pass, v_now, v_result, v_prev>>

exVars == <<x_pc, x_raw, x_json, x_attempt, x_usage, x_ir, x_ret>>

pipeVars == <<p_pc, p_cfg, p_phase1, t_state, t_result, p_pool, p_synth, p_review, final_answer, messages,
              prompt, stop_generation, total_cost, p_direct, sessions_file>>

vars == <<rpc, renv, classification, pipeline, ir_in, ir_arg, v_pass, v_now, v_result, v_prev,
          x_pc, x_raw, x_json, x_attempt, x_usage, x_ir, x_ret,
          p_pc, p_cfg, p_phase1, t_state, t_result, p_pool, p_synth, p_review, final_answer, messages,
          prompt, stop_generation, total_cost, p_direct, sessions_file>>

(***************************************************************************)
(* Python dict helpers                                                     *)
(***************************************************************************)

\* The empty dict {}.
EmptyDict == [k \in {} |-> TRUE]

\* d.get(k, default)
Get(d, k, default) == IF k \in DOMAIN d THEN d[k] ELSE default

\* d.setdefault(k, v): leaves a present key alone
SetDefault(d, k, v) == IF k \in DOMAIN d THEN d ELSE d @@ [x \in {k} |-> v]

\* d[k] = v (assignment)
SetKey(d, k, v) == [x \in (DOMAIN d) \cup {k} |-> IF x = k THEN v ELSE d[x]]

\* The dict with the single key k when opt = {v}, the empty dict when opt = {}.
OptField(k, opt) == [x \in (IF opt = {} THEN {} ELSE {k}) |-> CHOOSE v \in opt : TRUE]

\* The key k is present in d and holds v.
Has(d, k, v) == k \in DOMAIN d /\ d[k] = v

(***************************************************************************)
(* router.py                                                               *)
(***************************************************************************)

\* The domains the analysis prompt names (router.py:65-74).
Domains == {"medical", "legal", "finance", "coding", "product", "planning",
            "chitchat", "news", "general"}

\* router.py:134 and router.py:138.
valid_complexity == {"low", "medium", "high"}
valid_risk == {"low", "medium", "high"}

\* A JSON value that is not hashable in Python (a list or an object): testing it
\* against a set raises TypeError, comparing it with == or against a list does not.
Unhashable == "<unhashable>"

\* The values the model's JSON may give a level field: the valid ones, an
\* unrecognized string and an unhashable value.
LevelValues == valid_complexity \cup {"extreme", Unhashable}

\* The values the model's JSON may give the domain field.
DomainValues == Domains \cup {"sports"}

\* Every dict over the classification keys: each key is present or absent.
ClassificationDicts ==
    { OptField("domain", d) @@ OptField("complexity", c) @@ OptField("risk_level", r)
      @@ OptField("needs_research", nr) @@ OptField("needs_cross_check", nc)
      @@ OptField("needs_x_search", nx) @@ OptField("notes", n) :
        d \in {{}} \cup {{v} : v \in DomainValues},
        c \in {{}} \cup {{v} : v \in LevelValues},
        r \in {{}} \cup {{v} : v \in LevelValues},
        nr \in {{}, {TRUE}, {FALSE}},
        nc \in {{}, {TRUE}, {FALSE}},
        nx \in {{}, {TRUE}, {FALSE}},
        n \in {{}, {"memo"}} }

\* router.py:31-39
safe_default ==
    [domain |-> "general", complexity |-> "medium", risk_level |-> "medium",
     needs_research |-> TRUE, needs_cross_check |-> FALSE, needs_x_search |-> FALSE,
     notes |-> "Default (classification not performed)"]

\* What the environment does to one call of analyze_question_for_routing:
\* whether `from google.genai import types` succeeds, whether the provider call
\* returns, and what the response text is: none, text that is not JSON, JSON that
\* is not an object, or a JSON object.
AnalyzeEnvs ==
    [import_ok : {FALSE}, call_ok : {FALSE}, text : {"none"}, obj : {EmptyDict}]
    \cup [import_ok : {TRUE}, call_ok : {FALSE}, text : {"none"}, obj : {EmptyDict}]
    \cup [import_ok : {TRUE}, call_ok : {TRUE}, text : {"none", "not_json", "non_object"},
          obj : {EmptyDict}]
    \cup [import_ok : {TRUE}, call_ok : {TRUE}, text : {"object"}, obj : ClassificationDicts]

\* router.py:125-131
Normalize_setdefaults(c) ==
    SetDefault(SetDefault(SetDefault(SetDefault(SetDefault(SetDefault(SetDefault(c,
        "domain", "general"),
        "complexity", "medium"),
        "risk_level", "medium"),
        "needs_research", TRUE),
        "needs_cross_check", FALSE),
        "needs_x_search", FALSE),
        "notes", "")

\* router.py:134-140; applies to a dict whose level fields are hashable.
Normalize_enums(c) ==
    LET c1 == IF c["complexity"] \notin valid_complexity
              THEN SetKey(c, "complexity", "medium") ELSE c
    IN  IF c1["risk_level"] \notin valid_risk
        THEN SetKey(c1, "risk_level", "medium") ELSE c1

\* The return value of the handlers at router.py:145-152. The name safe_default
\* is bound at router.py:31, after the import at router.py:28: a handler that
\* runs before the binding finds the name unbound and raises UnboundLocalError.
HandlerReturn(bound) ==
    IF bound THEN [raised |-> FALSE, value |-> safe_default]
    ELSE [raised |-> TRUE, value |-> EmptyDict]

\* router.py:11-152: the outcome of analyze_question_for_routing under env e.
analyze_question_for_routing(e) ==
    IF ~e.import_ok THEN HandlerReturn(FALSE)                      \* :28 raises
    ELSE IF ~e.call_ok THEN HandlerReturn(TRUE)                    \* :100 raises
    ELSE IF e.text = "none" THEN [raised |-> FALSE, value |-> safe_default]  \* :114-116
    ELSE IF e.text = "not_json" THEN HandlerReturn(TRUE)           \* :122, :145-147
    ELSE IF e.text = "non_object" THEN HandlerReturn(TRUE)         \* :125 AttributeError
    ELSE LET c == Normalize_setdefaults(e.obj)
         IN  IF c["complexity"] = Unhashable \/ c["risk_level"] = Unhashable
             THEN HandlerReturn(TRUE)                              \* :135, :139 TypeError
             ELSE [raised |-> FALSE, value |-> Normalize_enums(c)]

\* router.py:173-185; routing_reason is kept as the list of its parts.
default_pipeline ==
    [mode_name |-> "medium", enable_research |-> FALSE, enable_meta |-> FALSE,
     enable_strict |-> FALSE, use_search |-> TRUE, candidate_count |-> 1,
     use_grok |-> FALSE, use_claude |-> FALSE, use_o4_mini |-> FALSE,
     use_x_search |-> FALSE, routing_reason |-> <<>>]

\* Rule 1 testing the risk level alone.
Rule1_risk_only(risk, domain) == risk = "high"

\* router.py:188
Rule1(risk, domain) == risk = "high" \/ domain \in {"medical", "legal", "finance"}

\* Rule 2 firing for medium complexity as well.
Rule2_medium_too(complexity, needs_cross) == complexity \in {"high", "medium"} \/ needs_cross

\* router.py:201
Rule2(complexity, needs_cross) == complexity = "high" \/ needs_cross

\* router.py:214
Rule3(complexity, needs_research) == complexity = "medium" \/ needs_research

\* router.py:189-198
full_verify_update(p) ==
    [p EXCEPT !.mode_name = "full_verify", !.enable_research = TRUE,
              !.enable_meta = TRUE, !.enable_strict = TRUE, !.use_grok = TRUE,
              !.use_claude = TRUE, !.use_o4_mini = TRUE,
              !.routing_reason = <<"full_verify">>]

\* The research_meta update enabling the structural role whatever the complexity.
research_meta_update_claude_always(p, complexity) ==
    [p EXCEPT !.mode_name = "research_meta", !.enable_research = TRUE,
              !.enable_meta = TRUE, !.enable_strict = FALSE, !.use_grok = TRUE,
              !.use_claude = TRUE, !.use_o4_mini = FALSE,
              !.routing_reason = <<"research_meta">>]

\* router.py:202-211
research_meta_update(p, complexity) ==
    [p EXCEPT !.mode_name = "research_meta", !.enable_research = TRUE,
              !.enable_meta = TRUE, !.enable_strict = FALSE, !.use_grok = TRUE,
              !.use_claude = (complexity = "high"), !.use_o4_mini = FALSE,
              !.routing_reason = <<"research_meta">>]

\* The research update with the contrarian role left on.
research_update_with_grok(p) ==
    [p EXCEPT !.mode_name = "research", !.enable_research = TRUE,
              !.enable_meta = FALSE, !.enable_strict = FALSE, !.use_grok = TRUE,
              !.routing_reason = <<"research">>]

\* router.py:215-222
research_update(p) ==
    [p EXCEPT !.mode_name = "research", !.enable_research = TRUE,
              !.enable_meta = FALSE, !.enable_strict = FALSE, !.use_grok = FALSE,
              !.routing_reason = <<"research">>]

\* router.py:226-232
light_update(p) ==
    [p EXCEPT !.mode_name = "light", !.enable_research = FALSE,
              !.enable_meta = FALSE, !.enable_strict = FALSE,
              !.routing_reason = <<"light">>]

\* router.py:165-232: the reads of the classification and the if/elif chain of
\* route_question_to_pipeline.
DecisionTable(c) ==
    LET risk == Get(c, "risk_level", "medium")
        complexity == Get(c, "complexity", "medium")
        domain == Get(c, "domain", "general")
        needs_research == Get(c, "needs_research", TRUE)
        needs_cross == Get(c, "needs_cross_check", FALSE)
    IN  IF Rule1(risk, domain) THEN full_verify_update(default_pipeline)
        ELSE IF Rule2(complexity, needs_cross)
             THEN research_meta_update(default_pipeline, complexity)
        ELSE IF Rule3(complexity, needs_research) THEN research_update(default_pipeline)
        ELSE light_update(default_pipeline)

\* The X-search rule switching research on as well.
XSearchRule_forces_research(p, c) ==
    LET needs_x == Get(c, "needs_x_search", FALSE)
        domain == Get(c, "domain", "general")
    IN  IF needs_x \/ domain = "news"
        THEN [p EXCEPT !.use_x_search = TRUE, !.use_grok = TRUE, !.enable_research = TRUE,
                       !.routing_reason = Append(p.routing_reason, "x_search")]
        ELSE p

\* router.py:234-238
XSearchRule(p, c) ==
    LET needs_x == Get(c, "needs_x_search", FALSE)
        domain == Get(c, "domain", "general")
    IN  IF needs_x \/ domain = "news"
        THEN [p EXCEPT !.use_x_search = TRUE, !.use_grok = TRUE,
                       !.routing_reason = Append(p.routing_reason, "x_search")]
        ELSE p

\* router.py:155-241
route_question_to_pipeline(c) == XSearchRule(DecisionTable(c), c)

NoEnv == [import_ok |-> TRUE, call_ok |-> TRUE, text |-> "unused", obj |-> EmptyDict]

\* A caller runs analyze_question_for_routing: it returns a classification or raises.
Analyze ==
    /\ rpc = "idle"
    /\ \E e \in AnalyzeEnvs :
        LET r == analyze_question_for_routing(e)
        IN  /\ renv' = e
            /\ rpc' = IF r.raised THEN "raised" ELSE "classified"
            /\ classification' = r.value
    /\ UNCHANGED <<pipeline, irVars, exVars, pipeVars>>

\* A caller hands route_question_to_pipeline a classification dict of its own.
CallerClassification ==
    /\ rpc = "idle"
    /\ \E c \in ClassificationDicts : classification' = c
    /\ rpc' = "classified"
    /\ UNCHANGED <<renv, pipeline, irVars, exVars, pipeVars>>

\* route_question_to_pipeline, router.py:165-232: the decision table.
RouteDecisionTable ==
    /\ rpc = "classified"
    /\ pipeline' = DecisionTable(classification)
    /\ rpc' = "branched"
    /\ UNCHANGED <<renv, classification, irVars, exVars, pipeVars>>

\* route_question_to_pipeline, router.py:234-241: the X-search rule and the return.
RouteXSearch ==
    /\ rpc = "branched"
    /\ pipeline' = XSearchRule(pipeline, classification)
    /\ rpc' = "routed"
    /\ UNCHANGED <<renv, classification, irVars, exVars, pipeVars>>

RouterNext == Analyze \/ CallerClassification \/ RouteDecisionTable \/ RouteXSearch

(***************************************************************************)
(* JSON values, as json.loads returns them                                 *)
(***************************************************************************)

\* None
JNull == [t |-> "null"]

\* a str
JStr(s) == [t |-> "str", s |-> s]

\* an int
JInt(n) == [t |-> "int", n |-> n]

\* a list
JList(items) == [t |-> "list", items |-> items]

\* a dict
JDict(d) == [t |-> "dict", d |-> d]

\* isinstance(v, dict)
IsDict(v) == v.t = "dict"

\* v.get(k, default) on a dict value
DGet(v, k, default) == Get(v.d, k, default)

\* The characters of the strings the model iterates over.
Chars(s) == IF s = "ab" THEN <<"a", "b">> ELSE <<>>

\* `for x in v` is defined for a list and a str, and raises TypeError for None
\* and an int.
Iterable(v) == v.t \in {"list", "str"}

\* The items `for x in v` yields.
Iter(v) ==
    IF v.t = "list" THEN v.items
    ELSE [i \in 1..Len(Chars(v.s)) |-> JStr(Chars(v.s)[i])]

\* str(v) for a str, None and an int.
PyStr(v) ==
    IF v.t = "str" THEN v
    ELSE IF v.t = "null" THEN JStr("None")
    ELSE JStr(ToString(v.n))

\* The largest sources_count the model writes.
MaxCount == 2

\* int(v): the int itself, the number a decimal string spells, ValueError for
\* another string and TypeError for None.
PyInt(v) ==
    IF v.t = "int" THEN [ok |-> TRUE, n |-> v.n]
    ELSE IF v.t = "str" /\ \E n \in 0..MaxCount : v.s = ToString(n)
    THEN [ok |-> TRUE, n |-> CHOOSE n \in 0..MaxCount : v.s = ToString(n)]
    ELSE [ok |-> FALSE, n |-> 0]

\* [str(x) for x in v]
StrList(v) == JList([i \in 1..Len(Iter(v)) |-> PyStr(Iter(v)[i])])

\* `not v` for a str value
IsEmptyStr(v) == v.s = ""

RECURSIVE Flatten(_)
\* The concatenation of a sequence of sequences.
Flatten(ss) == IF ss = <<>> THEN <<>> ELSE Head(ss) \o Flatten(Tail(ss))

\* The positions of the dicts among items, in order.
KeptIndexes(items) ==
    Flatten([i \in 1..Len(items) |-> IF IsDict(items[i]) THEN <<i>> ELSE <<>>])

(***************************************************************************)
(* research_ir.py                                                          *)
(***************************************************************************)

\* research_ir.py:18
SourceLiteral == {"web", "youtube", "model"}

\* research_ir.py:21, :36, :51
LevelLiteral == {"high", "medium", "low", "unknown"}

\* research_ir.py:37
TimeframeLiteral == {"short", "medium", "long", "unknown"}

\* research_ir.py:44-50
ReasonLiteral == {"insufficient_data", "conflicting_data", "grey_area",
                  "future_dependent", "unknown"}

\* `v in [...]` for a list of strings
InList(v, valid) == v.t = "str" /\ v.s \in valid

\* An enum field read with its default and no membership test.
EnumField_unchecked(item, key, valid, default) == DGet(item, key, JStr(default))

\* research_ir.py:109, :112, :150, :151, :172, :173:
\* item.get(key, default) if item.get(key) in valid else default
EnumField(item, key, valid, default) ==
    IF InList(DGet(item, key, JNull), valid)
    THEN DGet(item, key, JStr(default))
    ELSE JStr(default)

\* One warning: f"{section} {i} ..." with the text named by `what`.
Warning(what, section, i) == [what |-> what, section |-> section, i |-> i]

\* research_ir.py:107-113
NormFact(fact) ==
    JDict([statement |-> PyStr(DGet(fact, "statement", JStr(""))),
           source |-> EnumField(fact, "source", SourceLiteral, "model"),
           source_detail |-> PyStr(DGet(fact, "source_detail", JStr(""))),
           date |-> DGet(fact, "date", JNull),
           confidence |-> EnumField(fact, "confidence", LevelLiteral, "unknown")])

\* The warnings of item i of facts, with one more for each enum field coerced.
FactWarnings_with_enum(items, i) ==
    IF ~IsDict(items[i]) THEN <<Warning("not_dict", "Fact", i - 1)>>
    ELSE (IF ~InList(DGet(items[i], "confidence", JNull), LevelLiteral)
          THEN <<Warning("coerced", "Fact", i - 1)>> ELSE <<>>)
         \o (IF IsEmptyStr(NormFact(items[i]).d.statement)
             THEN <<Warning("empty", "Fact", i - 1)>> ELSE <<>>)

\* research_ir.py:103-105, :115-116: the warnings of item i (enumerate index i-1).
FactWarnings(items, i) ==
    IF ~IsDict(items[i]) THEN <<Warning("not_dict", "Fact", i - 1)>>
    ELSE IF IsEmptyStr(NormFact(items[i]).d.statement)
    THEN <<Warning("empty", "Fact", i - 1)>>
    ELSE <<>>

\* research_ir.py:129-135; i is the enumerate index plus one.
NormOption(option, i) ==
    JDict([name |-> PyStr(DGet(option, "name", JStr("Option " \o ToString(i)))),
           pros |-> StrList(DGet(option, "pros", JList(<<>>))),
           cons |-> StrList(DGet(option, "cons", JList(<<>>))),
           conditions |-> StrList(DGet(option, "conditions", JList(<<>>))),
           estimated_cost |-> DGet(option, "estimated_cost", JNull)])

\* research_ir.py:131-133: a comprehension over a value that is not iterable raises.
OptionRaises(option) ==
    \E k \in {"pros", "cons", "conditions"} : ~Iterable(DGet(option, k, JList(<<>>)))

\* research_ir.py:125-127
OptionWarnings(items, i) ==
    IF ~IsDict(items[i]) THEN <<Warning("not_dict", "Option", i - 1)>> ELSE <<>>

\* research_ir.py:148-153
NormRisk(risk) ==
    JDict([statement |-> PyStr(DGet(risk, "statement", JStr(""))),
           severity |-> EnumField(risk, "severity", LevelLiteral, "unknown"),
           timeframe |-> EnumField(risk, "timeframe", TimeframeLiteral, "unknown"),
           mitigation |-> DGet(risk, "mitigation", JNull)])

\* research_ir.py:144-146, :155-156
RiskWarnings(items, i) ==
    IF ~IsDict(items[i]) THEN <<Warning("not_dict", "Risk", i - 1)>>
    ELSE IF IsEmptyStr(NormRisk(items[i]).d.statement)
    THEN <<Warning("empty", "Risk", i - 1)>>
    ELSE <<>>

\* research_ir.py:169-174
NormUnknown(unknown) ==
    JDict([question |-> PyStr(DGet(unknown, "question", JStr(""))),
           why_unknown |-> EnumField(unknown, "why_unknown", ReasonLiteral, "unknown"),
           impact |-> EnumField(unknown, "impact", LevelLiteral, "unknown")])

\* research_ir.py:165-167, :176-177
UnknownWarnings(items, i) ==
    IF ~IsDict(items[i]) THEN <<Warning("not_dict", "Unknown", i - 1)>>
    ELSE IF IsEmptyStr(NormUnknown(items[i]).d.question)
    THEN <<Warning("empty", "Unknown", i - 1)>>
    ELSE <<>>

\* datetime.now().isoformat() at clock value now
IsoFormat(now) == "T" \o ToString(now)

\* created_at stamped with the time of the call, whatever the metadata holds.
CreatedAt_always_now(metadata, now) == JStr(IsoFormat(now))

\* research_ir.py:188
CreatedAt(metadata, now) == PyStr(DGet(metadata, "created_at", JStr(IsoFormat(now))))

\* research_ir.py:189-191: the conversions of the metadata that can raise.
MetadataRaises(metadata) ==
    \/ ~Iterable(DGet(metadata, "models", JList(<<>>)))
    \/ ~PyInt(DGet(metadata, "sources_count", JInt(0))).ok
    \/ ~Iterable(DGet(metadata, "search_queries", JList(<<>>)))

\* research_ir.py:185-192
NormMetadata(metadata, now) ==
    JDict([question |-> PyStr(DGet(metadata, "question", JStr(""))),
           language |-> PyStr(DGet(metadata, "language", JStr("ja"))),
           created_at |-> CreatedAt(metadata, now),
           models |-> StrList(DGet(metadata, "models", JList(<<>>))),
           sources_count |-> JInt(PyInt(DGet(metadata, "sources_count", JInt(0))).n),
           search_queries |-> StrList(DGet(metadata, "search_queries", JList(<<>>)))])

\* The call raised: nothing is returned.
Raised == [raised |-> TRUE, ir |-> JNull, warnings |-> <<>>]

\* research_ir.py:77-200: validate_research_ir(ir) called at clock value now.
validate_research_ir(ir, now) ==
    IF ~IsDict(ir) THEN Raised                                     \* :93 ir.get
    ELSE
    LET facts == DGet(ir, "facts", JList(<<>>))
        options == DGet(ir, "options", JList(<<>>))
        risks == DGet(ir, "risks", JList(<<>>))
        unknowns == DGet(ir, "unknowns", JList(<<>>))
        metadata == DGet(ir, "metadata", JDict(EmptyDict))
    IN  IF ~Iterable(facts) THEN Raised                            \* :102
        ELSE IF ~Iterable(options) THEN Raised                     \* :124
        ELSE IF \E i \in 1..Len(Iter(options)) :
                    IsDict(Iter(options)[i]) /\ OptionRaises(Iter(options)[i])
             THEN Raised                                           \* :131-133
        ELSE IF ~Iterable(risks) THEN Raised                       \* :143
        ELSE IF ~Iterable(unknowns) THEN Raised                    \* :164
        ELSE IF ~IsDict(metadata) THEN Raised                      \* :186 metadata.get
        ELSE IF MetadataRaises(metadata) THEN Raised               \* :189-191
        ELSE
        LET fs == Iter(facts)
            os == Iter(options)
            rs == Iter(risks)
            us == Iter(unknowns)
            fk == KeptIndexes(fs)
            ok == KeptIndexes(os)
            rk == KeptIndexes(rs)
            uk == KeptIndexes(us)
            normalized_facts == [j \in 1..Len(fk) |-> NormFact(fs[fk[j]])]
            normalized_options == [j \in 1..Len(ok) |-> NormOption(os[ok[j]], ok[j])]
            normalized_risks == [j \in 1..Len(rk) |-> NormRisk(rs[rk[j]])]
            normalized_unknowns == [j \in 1..Len(uk) |-> NormUnknown(us[uk[j]])]
            warnings ==
                Flatten([i \in 1..Len(fs) |-> FactWarnings(fs, i)])
                \o Flatten([i \in 1..Len(os) |-> OptionWarnings(os, i)])
                \o Flatten([i \in 1..Len(rs) |-> RiskWarnings(rs, i)])
                \o Flatten([i \in 1..Len(us) |-> UnknownWarnings(us, i)])
                \o (IF normalized_facts = <<>>
                    THEN <<Warning("no_facts", "facts", 0)>> ELSE <<>>)  \* :197-198
        IN  [raised |-> FALSE,
             ir |-> JDict([facts |-> JList(normalized_facts),
                           options |-> JList(normalized_options),
                           risks |-> JList(normalized_risks),
                           unknowns |-> JList(normalized_unknowns),
                           metadata |-> NormMetadata(metadata, now)]),
             warnings |-> warnings]

(***************************************************************************)
(* The dictionaries handed to validate_research_ir                         *)
(***************************************************************************)

\* The number of list items an input holds at most, an empty list or a value that
\* is not a list counting as one item.
MaxItems == 2

\* The number of times validate_research_ir is called, first on the input and
\* then on what it returned.
MaxPasses == 3

\* An item that is not a dict.
NonDictItem == JNull

\* The facts the model's JSON may hold: the statement absent, empty or given and
\* the confidence absent, valid or unrecognized; a fact with every field given; a
\* fact with an unrecognized source; a fact whose fields are all null; an item that
\* is not a dict.
FactInputs ==
    { JDict(OptField("statement", s) @@ OptField("confidence", c)) :
        s \in {{}, {JStr("")}, {JStr("s")}},
        c \in {{}, {JStr("high")}, {JStr("certain")}} }
    \cup { JDict([statement |-> JStr("s"), source |-> JStr("youtube"),
                  source_detail |-> JStr("u"), date |-> JStr("2024-12-04"),
                  confidence |-> JStr("unknown")]),
           JDict([statement |-> JStr("s"), source |-> JStr("blog"),
                  confidence |-> JStr("low")]),
           JDict([statement |-> JNull, source |-> JNull, source_detail |-> JNull,
                  date |-> JNull, confidence |-> JNull]),
           NonDictItem }

\* The options the model's JSON may hold; the last dict makes a comprehension raise.
OptionInputs ==
    { JDict(EmptyDict),
      JDict([name |-> JStr("n"), pros |-> JList(<<JStr("p"), JNull>>)]),
      JDict([cons |-> JStr("ab"), estimated_cost |-> JStr("1 USD")]),
      JDict([name |-> JStr("n"), conditions |-> JNull]),
      NonDictItem }

\* The risks the model's JSON may hold: the statement empty or given and the
\* severity absent, valid or unrecognized; risks with a valid, null or misplaced
\* timeframe; an item that is not a dict.
RiskInputs ==
    { JDict(OptField("statement", s) @@ OptField("severity", sv)) :
        s \in {{JStr("")}, {JStr("s")}},
        sv \in {{}, {JStr("low")}, {JStr("critical")}} }
    \cup { JDict([statement |-> JStr("s"), severity |-> JStr("short"),
                  timeframe |-> JStr("high"), mitigation |-> JStr("m")]),
           JDict([statement |-> JStr("s"), severity |-> JStr("high"),
                  timeframe |-> JStr("long")]),
           JDict([severity |-> JNull, timeframe |-> JNull]),
           NonDictItem }

\* The unknowns the model's JSON may hold: the question empty or given and the
\* reason absent, valid or unrecognized; unknowns with a valid, unrecognized or
\* numeric impact; an item that is not a dict.
UnknownInputs ==
    { JDict(OptField("question", q) @@ OptField("why_unknown", w)) :
        q \in {{JStr("")}, {JStr("q")}},
        w \in {{}, {JStr("grey_area")}, {JStr("secret")}} }
    \cup { JDict([question |-> JStr("q"), why_unknown |-> JStr("insufficient_data"),
                  impact |-> JStr("medium")]),
           JDict([question |-> JStr("q"), why_unknown |-> JStr("high"),
                  impact |-> JStr("grey_area")]),
           JDict([impact |-> JInt(1)]),
           NonDictItem }

\* The metadata values the model's JSON may hold; the last three make the
\* normalization raise.
MetadataInputs ==
    { JDict(EmptyDict),
      JDict([question |-> JStr("q"), language |-> JStr("en"), created_at |-> JStr("T0"),
             models |-> JList(<<JStr("m")>>), sources_count |-> JStr("2"),
             search_queries |-> JList(<<>>)]),
      JDict([sources_count |-> JStr("many")]),
      JDict([models |-> JNull]),
      JNull }

\* The sequences over S of length at most n.
SeqsUpTo(S, n) == UNION {[1..k -> S] : k \in 0..n}

\* The values of one section that cost at most n items, each as the set holding
\* it, and the empty set for a section that is absent.
SectionValues(Items, n) ==
    {{}} \cup (IF n < 1 THEN {}
               ELSE {{JList(s)} : s \in SeqsUpTo(Items, n)} \cup {{JNull}, {JStr("ab")}})

\* The items a section value costs.
Cost(opt) ==
    IF opt = {} THEN 0
    ELSE LET v == CHOOSE v \in opt : TRUE
         IN  IF v.t = "list" /\ Len(v.items) > 1 THEN Len(v.items) ELSE 1

\* The dict with the five sections, each given as the set holding its value or as
\* the empty set when the key is absent.
IRDict(f, o, r, u, m) ==
    JDict(OptField("facts", f) @@ OptField("options", o) @@ OptField("risks", r)
          @@ OptField("unknowns", u) @@ OptField("metadata", m))

\* The metadata values that cost at most n items.
MetadataValues(n) == {{}} \cup (IF n < 1 THEN {} ELSE {{v} : v \in MetadataInputs})

\* The values json.loads may return that are no dict.
NonDictInputs == {JNull, JList(<<>>)}

\* No call has returned yet.
NoResult == [raised |-> FALSE, ir |-> JNull, warnings |-> <<>>]

\* validate_research_ir(ir_arg) is called and returns or raises; a caller that
\* normalizes again passes the IR it got back. The clock has moved on by then.
Validate ==
    /\ v_pass < MaxPasses
    /\ ~v_result.raised
    /\ \E r \in {validate_research_ir(ir_arg, v_now)} :
        /\ v_result' = r
        /\ ir_arg' = IF r.raised THEN ir_arg ELSE r.ir
    /\ v_prev' = v_result
    /\ v_pass' = v_pass + 1
    /\ v_now' = v_now + 1
    /\ UNCHANGED <<ir_in, routerVars, exVars, pipeVars>>

IRNext == Validate

(***************************************************************************)
(* app.py: extract_facts_and_risks_v2                                      *)
(***************************************************************************)

\* The longest answer of the provider, in tokens, code fences apart.
MaxTokens == 4

\* The tokens of a JSON text. A member is one token: the key "facts" with a list
\* of one fact whose confidence is outside the declared set, written with double
\* quotes or with single quotes.
LBrace == "{"

RBrace == "}"

LBracket == "["

RBracket == "]"

Comma == ","

NullToken == "null"

DQMember == "<double-quoted> facts: [{statement: s, confidence: certain}]"

SQMember == "<single-quoted> facts: [{statement: s, confidence: certain}]"

FenceOpen == "<fence json>"

FenceClose == "<fence>"

\* The tokens an answer is made of.
Tokens == {LBrace, RBrace, LBracket, RBracket, Comma, NullToken, DQMember, SQMember}

\* The key and the value a member token spells.
MemberKey == "facts"

MemberValue == JList(<<JDict([statement |-> JStr("s"), confidence |-> JStr("certain")])>>)

\* json.loads met a token it cannot accept.
ParseFail == [ok |-> FALSE, val |-> JNull, next |-> 0]

\* json.loads read val and goes on at position next.
ParseOk(val, next) == [ok |-> TRUE, val |-> val, next |-> next]

RECURSIVE ParseValue(_, _), ParseMembers(_, _, _), ParseElements(_, _, _)
\* A JSON value starting at toks[i]: null, an object or an array.
ParseValue(toks, i) ==
    IF i > Len(toks) THEN ParseFail
    ELSE IF toks[i] = NullToken THEN ParseOk(JNull, i + 1)
    ELSE IF toks[i] = LBrace
    THEN IF i + 1 <= Len(toks) /\ toks[i + 1] = RBrace
         THEN ParseOk(JDict(EmptyDict), i + 2)
         ELSE ParseMembers(toks, i + 1, EmptyDict)
    ELSE IF toks[i] = LBracket
    THEN IF i + 1 <= Len(toks) /\ toks[i + 1] = RBracket
         THEN ParseOk(JList(<<>>), i + 2)
         ELSE ParseElements(toks, i + 1, <<>>)
    ELSE ParseFail

\* The members of an object from toks[i] on, d holding those read so far: a
\* double-quoted member, then a closing brace or a comma and another member. A closing brace
\* after a comma and a single-quoted member are errors.
ParseMembers(toks, i, d) ==
    IF i > Len(toks) \/ i + 1 > Len(toks) THEN ParseFail
    ELSE IF toks[i] # DQMember THEN ParseFail
    ELSE LET d2 == SetKey(d, MemberKey, MemberValue)
         IN  IF toks[i + 1] = RBrace THEN ParseOk(JDict(d2), i + 2)
             ELSE IF toks[i + 1] = Comma THEN ParseMembers(toks, i + 2, d2)
             ELSE ParseFail

\* The elements of an array from toks[i] on, acc holding those read so far.
ParseElements(toks, i, acc) ==
    LET r == ParseValue(toks, i)
    IN  IF ~r.ok \/ r.next > Len(toks) THEN ParseFail
        ELSE IF toks[r.next] = RBracket THEN ParseOk(JList(Append(acc, r.val)), r.next + 1)
        ELSE IF toks[r.next] = Comma THEN ParseElements(toks, r.next + 1, Append(acc, r.val))
        ELSE ParseFail

\* json.loads(json_text): the value of the whole text, or JSONDecodeError.
json_loads(toks) ==
    LET r == ParseValue(toks, 1)
    IN  IF r.ok /\ r.next = Len(toks) + 1
        THEN [ok |-> TRUE, val |-> r.val]
        ELSE [ok |-> FALSE, val |-> JNull]

\* re.sub of the opening fence (three backquotes and json) and of the closing
\* fence (three backquotes) by the empty string.
StripFences(toks) == SelectSeq(toks, LAMBDA t : t \notin {FenceOpen, FenceClose})

\* json_text.replace("'", '"')
ReplaceQuotes(toks) == [i \in 1..Len(toks) |-> IF toks[i] = SQMember THEN DQMember ELSE toks[i]]

\* re.sub(r',\s*}', '}', json_text) and re.sub(r',\s*]', ']', json_text): one pass
\* that drops each comma standing right before the closer.
RemoveCommaBefore(toks, closer) ==
    Flatten([i \in 1..Len(toks) |->
        IF toks[i] = Comma /\ i < Len(toks) /\ toks[i + 1] = closer THEN <<>> ELSE <<toks[i]>>])

\* The three repairs made after the first JSONDecodeError.
Repair(toks) == RemoveCommaBefore(RemoveCommaBefore(ReplaceQuotes(toks), RBrace), RBracket)

\* {"prompt_tokens": 0, "output_tokens": 0}
ZeroUsage == [prompt_tokens |-> 0, output_tokens |-> 0]

\* usage_dict as built from response.usage_metadata: absent, with counts, or with
\* counts that are None.
usage_dict(usage_metadata) ==
    IF usage_metadata = "counts" THEN [prompt_tokens |-> 7, output_tokens |-> 3]
    ELSE ZeroUsage

\* str(e)
ErrText(e) == <<e>>

\* The handler that re-raises: what the function would be without its except
\* clause.
extract_handler_reraises(e) == [raised |-> TRUE, ret |-> <<>>]

\* except Exception as e: return (None, {...zeros...}, str(e))
extract_handler(e) == [raised |-> FALSE, ret |-> <<JNull, ZeroUsage, ErrText(e)>>]

\* What the environment does up to the parse loop: an import fails, an argument
\* is None, the provider call raises, the response has no content, or the
\* response carries a text.
FailingEnvs ==
    { [kind |-> k, usage |-> "none", fenced |-> FALSE, body |-> <<>>] :
        k \in {"ImportError", "research_text is None", "user_question is None",
               "provider raises", "content is None"} }

ResponseEnvs ==
    { [kind |-> k, usage |-> u, fenced |-> f, body |-> b] :
        k \in {"text"}, u \in {"none", "counts", "null_counts"}, f \in BOOLEAN,
        b \in SeqsUpTo(Tokens, MaxTokens) }
    \cup { [kind |-> "no candidates", usage |-> u, fenced |-> FALSE, body |-> <<>>] :
        u \in {"none", "counts"} }

\* The exception a failing environment raises inside the try block.
ExceptionOf(kind) ==
    IF kind = "ImportError" THEN "ImportError"
    ELSE IF kind = "research_text is None" THEN "TypeError"
    ELSE IF kind = "user_question is None" THEN "TypeError"
    ELSE IF kind = "provider raises" THEN "APIError"
    ELSE "AttributeError"

\* extract_text_from_response(response).strip(): "" when there are no
\* candidates, the parts' text otherwise.
extract_text_from_response(e) ==
    IF e.kind = "no candidates" THEN <<>>
    ELSE IF e.fenced THEN <<FenceOpen>> \o e.body \o <<FenceClose>>
    ELSE e.body

\* A return of a low-fidelity IR split from the raw text instead of None.
parse_failure_return_heuristic(usage, raw) ==
    <<validate_research_ir(JDict(EmptyDict), 0).ir, usage, raw>>

\* return (None, usage_dict, raw_text), when the second json.loads has failed
parse_failure_return(usage, raw) == <<JNull, usage, raw>>

\* The function is called: the imports, the prompt, the provider call, the text
\* and the usage of the response, the removal of code fences.
ExtractCall ==
    /\ x_pc = "idle"
    /\ \E e \in FailingEnvs \cup ResponseEnvs :
        IF e \in FailingEnvs
        THEN LET h == extract_handler(ExceptionOf(e.kind))
             IN  /\ x_pc' = IF h.raised THEN "raised" ELSE "returned"
                 /\ x_ret' = h.ret
                 /\ UNCHANGED <<x_raw, x_json, x_usage>>
        ELSE /\ x_pc' = "parse"
             /\ x_raw' = extract_text_from_response(e)
             /\ x_usage' = usage_dict(e.usage)
             /\ x_json' = StripFences(extract_text_from_response(e))
             /\ x_ret' = x_ret
    /\ x_attempt' = 0
    /\ x_ir' = JNull
    /\ UNCHANGED <<routerVars, irVars, pipeVars>>

\* One iteration of `for attempt in range(2)`: json.loads succeeds and the loop
\* is left, or the text is repaired for the second attempt, or the second
\* attempt has failed and (None, usage_dict, raw_text) is returned.
ExtractParse ==
    /\ x_pc = "parse"
    /\ LET r == json_loads(x_json)
       IN  IF r.ok
           THEN /\ x_ir' = r.val
                /\ x_pc' = "parsed"
                /\ UNCHANGED <<x_json, x_attempt, x_ret>>
           ELSE IF x_attempt = 0
           THEN /\ x_json' = Repair(x_json)
                /\ x_attempt' = 1
                /\ UNCHANGED <<x_pc, x_ir, x_ret>>
           ELSE /\ x_pc' = "returned"
                /\ x_ret' = parse_failure_return(x_usage, x_raw)
                /\ UNCHANGED <<x_json, x_attempt, x_ir>>
    /\ UNCHANGED <<x_raw, x_usage, routerVars, irVars, pipeVars>>

\* After the loop: a parsed null returns (None, usage_dict, raw_text); otherwise
\* validate_research_ir is called and its IR returned, or its exception handled.
ExtractValidate ==
    /\ x_pc = "parsed"
    /\ IF x_ir = JNull
       THEN /\ x_pc' = "returned"
            /\ x_ret' = <<JNull, x_usage, x_raw>>
       ELSE LET v == validate_research_ir(x_ir, v_now)
                h == extract_handler("AttributeError")
            IN  IF v.raised
                THEN /\ x_pc' = IF h.raised THEN "raised" ELSE "returned"
                     /\ x_ret' = h.ret
                ELSE /\ x_pc' = "returned"
                     /\ x_ret' = <<v.ir, x_usage, x_raw>>
    /\ UNCHANGED <<x_raw, x_json, x_attempt, x_usage, x_ir, routerVars, irVars, pipeVars>>

ExtractNext == ExtractCall \/ ExtractParse \/ ExtractValidate

(***************************************************************************)
(* app.py: the deep-thinking run of the chat pipeline (research,           *)
(* extraction, meta questions, consultant pool, synthesis, review, answer) *)
(***************************************************************************)

\* mode_category: the multi-layer and the normal answer mode.
MultiLayer == "multi-layer"

NormalCategory == "normal"

\* The response modes the sidebar offers, each with the keywords the pipeline
\* tests its name for ("strict" stands for the drill-sergeant keyword, "meta"
\* for the meta keyword and "beta1" for the keyword of the fast modes); modes
\* whose names hold the same keywords are given once.
ResponseModes ==
    { [category |-> MultiLayer, kw |-> k] :
        k \in { {"MAX", "ms/Az", "Az"}, {"strict"}, {"MAX", "grok"}, {"grok"},
                {"MAX", "Az"}, {}, {"meta"}, {"MAX"}, {"beta1"} } }
    \cup { [category |-> NormalCategory, kw |-> k] :
        k \in { {"strict"}, {"meta"}, {"MAX"}, {}, {"beta1"} } }

\* "<keyword>" in response_mode
InMode(cfg, keyword) == keyword \in cfg.mode.kw

\* enable_research
enable_research(cfg) == ~InMode(cfg, "beta1")

\* enable_meta
enable_meta(cfg) == InMode(cfg, "meta") \/ InMode(cfg, "MAX") \/ InMode(cfg, "grok")

\* enable_strict
enable_strict(cfg) == InMode(cfg, "strict") \/ InMode(cfg, "MAX")

\* is_ms_az_mode
is_ms_az_mode(cfg) == InMode(cfg, "ms/Az")

\* use_grok_reviewer, computed inside `if enable_strict`
use_grok_reviewer(cfg) ==
    cfg.mode.category = MultiLayer /\ (enable_strict(cfg) \/ InMode(cfg, "strict"))

\* The configurations of a run: the mode and which API keys are set
\* (OPENROUTER_API_KEY, the AWS key pair, GITHUB_TOKEN).
Configs ==
    { [mode |-> m, openrouter |-> o, aws |-> a, github |-> g] :
        m \in ResponseModes, o \in BOOLEAN, a \in BOOLEAN, g \in BOOLEAN }

\* The longest input o4-mini is called with.
InputLimit == 3800

\* len(safe_text) of run_o4mini_task for summaries that fill both slices:
\* fact_summary[:1500], two newlines, risk_summary[:1500].
safe_text_len == 1500 + 2 + 1500

\* The questions of the chat input: the length of the text and whether it
\* holds one of the keywords of should_use_x_search. The lengths are the
\* longest one that keeps the input of o4-mini within the limit, and one more.
Questions ==
    { [len |-> n, x_keyword |-> k] :
        n \in {InputLimit - safe_text_len - 2, InputLimit - safe_text_len - 1},
        k \in BOOLEAN }

\* The prompt of a script run in which nothing was submitted.
NoPrompt == [len |-> 0, x_keyword |-> FALSE]

\* should_use_x_search
should_use_x_search(question) == question.x_keyword

\* enable_grok_x_search, the enable_x_search argument of think_with_grok
enable_grok_x_search(cfg, question) == InMode(cfg, "grok") /\ should_use_x_search(question)

\* A budget check that never stops a request.
budget_reached_never(cost) == FALSE

\* stop_generation = usage_stats["total_cost_usd"] >= MAX_BUDGET_USD, computed
\* once while the script runs, before the chat input is read.
budget_reached(cost) == cost = "reached"

\* usage_stats["total_cost_usd"] += cost: the total may reach MAX_BUDGET_USD.
AddCost == total_cost' \in {total_cost, "reached"}

\* The message is appended and the save is left out.
AppendReply_no_save(message) ==
    /\ messages' = Append(messages, message)
    /\ UNCHANGED sessions_file

\* messages.append(...) followed by update_current_session_messages(messages),
\* which writes the sessions to SESSIONS_FILE.
AppendReply(message) ==
    /\ messages' = Append(messages, message)
    /\ sessions_file' = Append(messages, message)

\* The message the outer handler appends: the fallback answer chosen from the
\* text of the exception, flagged as an error.
outer_handler(err_text) ==
    [role |-> "model",
     content |-> <<IF err_text = "429 RESOURCE_EXHAUSTED" THEN "quota fallback answer"
                   ELSE IF err_text = "NOT_FOUND Publisher Model" THEN "model fallback answer"
                   ELSE "error fallback answer">>,
     error |-> TRUE]

\* The locals of phase 1 before the research call; research_calls records what
\* each research call did.
NoPhase1 ==
    [research_calls |-> <<>>, research_text |-> <<>>, current_ir |-> "None",
     fact_summary |-> <<>>, v1_called |-> FALSE, questions_text |-> <<>>]

\* The errors a Gemini call of the pipeline raises.
CallErrors == {"429 RESOURCE_EXHAUSTED", "NOT_FOUND Publisher Model", "network error"}

\* A question is submitted (if prompt:). With stop_generation set the script
\* stops at once; otherwise the user message is appended and saved, and the run
\* takes the non-research path or the research path.
Submit ==
    /\ p_pc = "submitted"
    /\ IF stop_generation
       THEN /\ p_pc' = "rejected"
            /\ UNCHANGED <<messages, sessions_file>>
       ELSE /\ AppendReply([role |-> "user", content |-> <<prompt>>, error |-> FALSE])
            /\ p_pc' = IF enable_research(p_cfg) THEN "research" ELSE "direct"
    /\ UNCHANGED <<p_cfg, p_phase1, t_state, t_result, p_pool, p_synth, p_review, final_answer>>
    /\ UNCHANGED <<routerVars, irVars, exVars>>
    /\ UNCHANGED <<prompt, stop_generation, p_direct, total_cost>>

\* The text of the answer of the non-research path.
DirectContent == "direct answer"

\* The non-research path (not enable_research): one generate_content call whose
\* text becomes final_answer; its exception reaches the outer handler. No mode
\* with the fast keyword has the strict keyword, so its review is never run.
DirectAnswer ==
    /\ p_pc = "direct"
    /\ \E o \in {"answer"} \cup CallErrors :
        /\ p_direct' = Append(p_direct, o)
        /\ IF o \in CallErrors
           THEN /\ AppendReply(outer_handler(o))
                /\ p_pc' = "done"
                /\ UNCHANGED <<final_answer, total_cost>>
           ELSE /\ final_answer' = <<DirectContent>>
                /\ AddCost
                /\ p_pc' = "finish"
                /\ UNCHANGED <<messages, sessions_file>>
    /\ UNCHANGED <<p_cfg, p_phase1, t_state, t_result, p_pool, p_synth, p_review>>
    /\ UNCHANGED <<routerVars, irVars, exVars>>
    /\ UNCHANGED <<prompt, stop_generation>>

\* Phase 1: the single research call. Its exception is not caught in the stage
\* and reaches the outer handler, which appends the fallback answer.
Research ==
    /\ p_pc = "research"
    /\ \E o \in {"memo", "empty"} \cup CallErrors :
        IF o \in CallErrors
        THEN /\ AppendReply(outer_handler(o))
             /\ p_pc' = "done"
             /\ p_phase1' = [p_phase1 EXCEPT !.research_calls = Append(@, o)]
             /\ UNCHANGED total_cost
        ELSE /\ p_phase1' = [p_phase1 EXCEPT
                                !.research_calls = Append(@, o),
                                !.research_text = IF o = "memo" THEN <<"research memo">> ELSE <<>>]
             /\ p_pc' = "extract"
             /\ AddCost
             /\ UNCHANGED <<messages, sessions_file>>
    /\ UNCHANGED <<p_cfg, t_state, t_result, p_pool, p_synth, p_review, final_answer>>
    /\ UNCHANGED <<routerVars, irVars, exVars>>
    /\ UNCHANGED <<prompt, stop_generation, p_direct>>

\* Phase 1.3, in ms/Az mode only: extract_facts_and_risks_v2 returns an IR or
\* None; on None the caller falls back to extract_facts_and_risks (v1), which
\* makes one more model call and returns two summaries.
ExtractIR ==
    /\ p_pc = "extract"
    /\ IF is_ms_az_mode(p_cfg)
       THEN /\ \E ir \in {"ir", "None"} :
                    p_phase1' = [p_phase1 EXCEPT
                        !.current_ir = ir,
                        !.fact_summary = IF ir = "None" THEN <<"v1 facts">> ELSE <<"ir facts">>,
                        !.v1_called = (ir = "None")]
            /\ AddCost
       ELSE UNCHANGED <<p_phase1, total_cost>>
    /\ p_pc' = "meta"
    /\ UNCHANGED <<p_cfg, t_state, t_result, p_pool, p_synth, p_review, final_answer, messages, sessions_file>>
    /\ UNCHANGED <<routerVars, irVars, exVars>>
    /\ UNCHANGED <<prompt, stop_generation, p_direct>>

\* Phase 1.5a, when enable_meta: the meta-question call; its exception reaches
\* the outer handler.
MetaQuestions ==
    /\ p_pc = "meta"
    /\ IF enable_meta(p_cfg)
       THEN \E o \in {"questions"} \cup CallErrors :
                IF o \in CallErrors
                THEN /\ AppendReply(outer_handler(o))
                     /\ p_pc' = "done"
                     /\ UNCHANGED <<p_phase1, total_cost>>
                ELSE /\ p_phase1' = [p_phase1 EXCEPT !.questions_text = <<"meta questions">>]
                     /\ p_pc' = "pool"
                     /\ AddCost
                     /\ UNCHANGED <<messages, sessions_file>>
       ELSE /\ p_pc' = "pool"
            /\ UNCHANGED <<p_phase1, messages, sessions_file, total_cost>>
    /\ UNCHANGED <<p_cfg, t_state, t_result, p_pool, p_synth, p_review, final_answer>>
    /\ UNCHANGED <<routerVars, irVars, exVars>>
    /\ UNCHANGED <<prompt, stop_generation, p_direct>>

\* The three consultant tasks submitted to the thread pool.
Tasks == {"grok", "claude", "o4mini"}

\* What a task function returns: its dict; `call` records what the task's own
\* provider call did ("none" when the task made no call).
TaskReturn(status, thought, error, call) ==
    [raised |-> FALSE, status |-> status, thought |-> thought, error |-> error, call |-> call]

\* A task function that lets its exception escape: future.result() raises it.
TaskRaise(call) ==
    [raised |-> TRUE, status |-> "raised", thought |-> <<>>, error |-> "None", call |-> call]

\* No result yet.
NoTaskResult == TaskReturn("pending", <<>>, "None", "none")

\* What the provider call of a task may do: answer with a text, answer with an
\* empty text, answer with an error text (the helpers of claude and o4-mini
\* return "Error calling ..." instead of raising), or raise.
TaskCalls(t) ==
    IF t = "grok" THEN {"text", "empty", "raises"}
    ELSE {"text", "empty", "error text", "raises"}

\* run_grok_task without its try block.
run_grok_task_no_try(cfg, call) ==
    IF ~(enable_meta(cfg) /\ cfg.openrouter) THEN TaskReturn("skipped", <<>>, "None", "none")
    ELSE IF call = "text" THEN TaskReturn("success", <<"grok thought">>, "None", call)
    ELSE IF call = "empty" THEN TaskReturn("empty", <<>>, "None", call)
    ELSE TaskRaise(call)

\* run_grok_task
run_grok_task(cfg, call) ==
    IF ~(enable_meta(cfg) /\ cfg.openrouter) THEN TaskReturn("skipped", <<>>, "None", "none")
    ELSE IF call = "text" THEN TaskReturn("success", <<"grok thought">>, "None", call)
    ELSE IF call = "empty" THEN TaskReturn("empty", <<>>, "None", call)
    ELSE TaskReturn("error", <<>>, "RuntimeError: Error calling OpenRouter model", call)

\* run_claude_task
run_claude_task(cfg, call) ==
    IF ~(InMode(cfg, "Az") /\ cfg.aws) THEN TaskReturn("skipped", <<>>, "None", "none")
    ELSE IF call = "text" THEN TaskReturn("success", <<"claude thought">>, "None", call)
    ELSE IF call = "empty" THEN TaskReturn("error", <<>>, "None", call)
    ELSE IF call = "error text"
    THEN TaskReturn("error", <<"Error calling Claude 4.5 Sonnet (Bedrock)">>, "None", call)
    ELSE TaskReturn("error", <<>>, "Exception in think_with_claude45_bedrock", call)

\* run_o4mini_task without the test of input_len.
run_o4mini_task_no_limit(cfg, call, input_len) ==
    IF ~(is_ms_az_mode(cfg) /\ cfg.github)
    THEN TaskReturn("skipped", <<>>, "None", "none")
    ELSE IF call = "text" THEN TaskReturn("success", <<"o4-mini thought">>, "None", call)
    ELSE IF call = "empty" THEN TaskReturn("error", <<>>, "None", call)
    ELSE IF call = "error text"
    THEN TaskReturn("error", <<"Error calling o4-mini (GitHub Models)">>, "None", call)
    ELSE TaskReturn("error", <<>>, "Exception in think_with_o4_mini", call)

\* run_o4mini_task
run_o4mini_task(cfg, call, input_len) ==
    IF ~(is_ms_az_mode(cfg) /\ cfg.github /\ input_len <= InputLimit)
    THEN TaskReturn("skipped", <<>>, "None", "none")
    ELSE IF call = "text" THEN TaskReturn("success", <<"o4-mini thought">>, "None", call)
    ELSE IF call = "empty" THEN TaskReturn("error", <<>>, "None", call)
    ELSE IF call = "error text"
    THEN TaskReturn("error", <<"Error calling o4-mini (GitHub Models)">>, "None", call)
    ELSE TaskReturn("error", <<>>, "Exception in think_with_o4_mini", call)

\* input_len of run_o4mini_task: the question, two newlines and safe_text,
\* which is the two sliced summaries or, without fact_summary, research_text[:3000]
\* (the texts are taken to fill their slices).
o4mini_input_len(question, phase1) ==
    question.len + 2
    + (IF phase1.fact_summary # <<>> THEN safe_text_len
       ELSE IF phase1.research_text # <<>> THEN 3000 ELSE 0)

\* The function submitted for task t.
run_task(t, cfg, call, input_len) ==
    IF t = "grok" THEN run_grok_task(cfg, call)
    ELSE IF t = "claude" THEN run_claude_task(cfg, call)
    ELSE run_o4mini_task(cfg, call, input_len)

\* The statuses and thoughts as initialised before the pool.
NoPool ==
    [collected |-> {}, timed_out |-> FALSE,
     grok_status |-> "skipped", grok_thought |-> <<>>, grok_error_msg |-> "None",
     claude45_status |-> "skipped", claude45_thought |-> <<>>,
     o4mini_status |-> "skipped", o4mini_thought |-> <<>>]

\* A loop body that stores the results of claude and o4-mini under each
\* other's variables.
collect_result_swapped(pool, t, result) ==
    LET seen == [pool EXCEPT !.collected = @ \cup {t}]
    IN  IF result.raised THEN seen
        ELSE IF t = "grok"
        THEN [seen EXCEPT !.grok_status = result.status, !.grok_thought = result.thought,
                          !.grok_error_msg = result.error]
        ELSE IF t = "o4mini"
        THEN [seen EXCEPT !.claude45_status = result.status, !.claude45_thought = result.thought]
        ELSE [seen EXCEPT !.o4mini_status = result.status, !.o4mini_thought = result.thought]

\* The body of the as_completed loop for the future of task t: the result is
\* copied into the variables of its role; an exception of future.result() is
\* only reported.
collect_result(pool, t, result) ==
    LET seen == [pool EXCEPT !.collected = @ \cup {t}]
    IN  IF result.raised THEN seen
        ELSE IF t = "grok"
        THEN [seen EXCEPT !.grok_status = result.status, !.grok_thought = result.thought,
                          !.grok_error_msg = result.error]
        ELSE IF t = "claude"
        THEN [seen EXCEPT !.claude45_status = result.status, !.claude45_thought = result.thought]
        ELSE [seen EXCEPT !.o4mini_status = result.status, !.o4mini_thought = result.thought]

\* The with-block is left after the first result, without joining the workers.
PoolBlockExits_after_first(pool, tstate) == pool.collected # {}

\* The with-block of the executor is left normally when as_completed has
\* yielded every future; ThreadPoolExecutor.__exit__ joins the workers.
PoolBlockExits(pool, tstate) ==
    /\ pool.collected = Tasks
    /\ \A t \in Tasks : tstate[t] = "done"

\* The three tasks are submitted; max_workers=3, so all of them start.
PoolSubmit ==
    /\ p_pc = "pool"
    /\ p_pc' = "collect"
    /\ t_state' = [t \in Tasks |-> "running"]
    /\ p_pool' = NoPool
    /\ UNCHANGED <<p_cfg, p_phase1, t_result, p_synth, p_review, final_answer, messages, sessions_file>>
    /\ UNCHANGED <<routerVars, irVars, exVars>>
    /\ UNCHANGED <<prompt, stop_generation, p_direct, total_cost>>

\* A worker thread runs its task function to the end.
TaskRun ==
    /\ \E t \in Tasks :
        /\ t_state[t] = "running"
        /\ \E call \in TaskCalls(t) :
                t_result' = [t_result EXCEPT ![t] =
                                run_task(t, p_cfg, call, o4mini_input_len(prompt, p_phase1))]
        /\ t_state' = [t_state EXCEPT ![t] = "done"]
    /\ UNCHANGED <<p_pc, p_cfg, p_phase1, p_pool, p_synth, p_review, final_answer, messages, sessions_file>>
    /\ UNCHANGED <<routerVars, irVars, exVars>>
    /\ UNCHANGED <<prompt, stop_generation, p_direct, total_cost>>

\* as_completed yields a finished future and the loop body handles it.
PoolCollect ==
    /\ p_pc = "collect"
    /\ \E t \in Tasks \ p_pool.collected :
        /\ t_state[t] = "done"
        /\ p_pool' = collect_result(p_pool, t, t_result[t])
        /\ IF t = "claude" /\ ~t_result[t].raised /\ t_result[t].status = "success"
           THEN AddCost
           ELSE UNCHANGED total_cost
    /\ UNCHANGED <<p_pc, p_cfg, p_phase1, t_state, t_result, p_synth, p_review, final_answer, messages, sessions_file>>
    /\ UNCHANGED <<routerVars, irVars, exVars>>
    /\ UNCHANGED <<prompt, stop_generation, p_direct>>

\* The 60 seconds of as_completed(futures, timeout=60) are over while a future
\* has not been yielded: the iterator raises TimeoutError, outside the try of the
\* loop body.
PoolTimeout ==
    /\ p_pc = "collect"
    /\ p_pool.collected # Tasks
    /\ p_pool' = [p_pool EXCEPT !.timed_out = TRUE]
    /\ p_pc' = "unwinding"
    /\ UNCHANGED <<p_cfg, p_phase1, t_state, t_result, p_synth, p_review, final_answer, messages, sessions_file>>
    /\ UNCHANGED <<routerVars, irVars, exVars>>
    /\ UNCHANGED <<prompt, stop_generation, p_direct, total_cost>>

\* The TimeoutError leaves the with-block: __exit__ waits for the running
\* workers, then the exception reaches the outer handler.
PoolUnwind ==
    /\ p_pc = "unwinding"
    /\ \A t \in Tasks : t_state[t] = "done"
    /\ AppendReply(outer_handler("futures unfinished"))
    /\ p_pc' = "done"
    /\ UNCHANGED <<p_cfg, p_phase1, t_state, t_result, p_pool, p_synth, p_review, final_answer>>
    /\ UNCHANGED <<routerVars, irVars, exVars>>
    /\ UNCHANGED <<prompt, stop_generation, p_direct, total_cost>>

\* The instruction that ends the synthesis prompt when a consultant text is there.
UseOtherModels == "instruction: answer the meta questions, then weigh the answers of the other models"

\* synthesis_prompt_text, as a list of its blocks: the IR block or the research
\* memo, the meta questions, the text of each consultant, and the instruction.
synthesis_prompt_text(cfg, phase1, pool) ==
    (IF phase1.current_ir # "None" THEN <<"structured research IR">>
     ELSE <<"user question">> \o phase1.research_text)
    \o (IF enable_meta(cfg) /\ phase1.questions_text # <<>> THEN phase1.questions_text ELSE <<>>)
    \o (IF enable_meta(cfg) /\ pool.grok_thought # <<>> THEN pool.grok_thought ELSE <<>>)
    \o (IF pool.claude45_thought # <<>> /\ pool.claude45_status = "success"
        THEN pool.claude45_thought ELSE <<>>)
    \o (IF pool.o4mini_thought # <<>> /\ pool.o4mini_status = "success"
        THEN pool.o4mini_thought ELSE <<>>)
    \o (IF enable_meta(cfg)
           /\ (pool.grok_thought # <<>> \/ pool.claude45_thought # <<>> \/ pool.o4mini_thought # <<>>)
        THEN <<UseOtherModels>>
        ELSE IF enable_meta(cfg) /\ phase1.questions_text # <<>>
        THEN <<"instruction: answer the meta questions, then give the overall answer">>
        ELSE <<"instruction: answer from the memo">>)

\* Every future has been handled and the with-block is left: phase 2 begins
\* with the synthesis prompt.
PoolExit ==
    /\ p_pc = "collect"
    /\ PoolBlockExits(p_pool, t_state)
    /\ p_pc' = "synthesis"
    /\ p_synth' = [p_synth EXCEPT !.synthesis_prompt_text =
                                    synthesis_prompt_text(p_cfg, p_phase1, p_pool)]
    /\ UNCHANGED <<p_cfg, p_phase1, t_state, t_result, p_pool, p_review, final_answer, messages, sessions_file>>
    /\ UNCHANGED <<routerVars, irVars, exVars>>
    /\ UNCHANGED <<prompt, stop_generation, p_direct, total_cost>>

\* max_retries of the synthesis loop and of the review loop.
max_retries == 3

\* None, where a text is expected.
NoneText == <<"<None>">>

\* Before the synthesis loop: draft_answer = None, synthesis_resp = None. `calls`
\* records what each attempt's call did and `waits` the seconds slept.
NoSynth ==
    [attempt |-> 0, calls |-> <<>>, waits |-> <<>>, draft_answer |-> NoneText,
     synthesis_resp |-> "None", finish_reason |-> "None", continuations |-> <<>>,
     synthesis_prompt_text |-> <<>>]

\* Before the review loop; grok_review_status = "skipped".
NoReview ==
    [attempt |-> 0, calls |-> <<>>, waits |-> <<>>, grok_review_status |-> "skipped",
     grok_answer |-> <<>>]

\* "quota" in error_msg or "rate" in error_msg or "resource" in error_msg
IsQuotaClass(err_text) == err_text = "429 RESOURCE_EXHAUSTED"

\* The text the synthesis call of the (attempt+1)-th attempt returns.
SynthContent(attempt) == "synthesis answer of attempt " \o ToString(attempt + 1)

\* The text the review call of the (attempt+1)-th attempt returns.
ReviewContent(attempt) == "reviewed answer of attempt " \o ToString(attempt + 1)

\* A wait that does not grow.
synthesis_wait_time_flat(attempt) == 30

\* wait_time = (attempt + 1) * 15 + 15
synthesis_wait_time(attempt) == (attempt + 1) * 15 + 15

\* wait_time = (attempt + 1) * 15 + 5
review_wait_time(attempt) == (attempt + 1) * 15 + 5

\* The fallback draft of the exhausted synthesis loop.
DegradedDraft == <<"synthesis interrupted by quota", "research memo excerpt">>

\* What a successful synthesis attempt leaves in draft_answer: the text, and
\* after a cut (finish_reason MAX_TOKENS or LENGTH) the continuation or the note
\* that the continuation failed.
synthesis_draft(attempt, o) ==
    IF o = "ok" THEN <<SynthContent(attempt)>>
    ELSE IF o = "cut, continued" THEN <<SynthContent(attempt), "continuation">>
    ELSE <<SynthContent(attempt), "continuation failed">>

\* The finish reasons of the candidate of a synthesis response.
FinishReasons == {"STOP", "MAX_TOKENS", "LENGTH"}

\* A test of the finish reason that never asks for a continuation.
is_length_limit_never(finish_reason) == FALSE

\* "MAX_TOKENS" in finish_reason or "LENGTH" in finish_reason
is_length_limit(finish_reason) == finish_reason \in {"MAX_TOKENS", "LENGTH"}

\* What a synthesis call that answered with the given finish reason did, given
\* what the continuation call does when it is made.
synthesis_outcome(finish_reason, continuation) ==
    IF ~is_length_limit(finish_reason) THEN "ok"
    ELSE IF continuation = "text" THEN "cut, continued"
    ELSE "cut, continuation failed"

\* One iteration of the synthesis loop `for attempt in range(max_retries)`. The
\* continuation call is made inside the try of the iteration, in a try of its
\* own, before the break.
SynthesisAttempt ==
    /\ p_pc = "synthesis"
    /\ p_synth.attempt < max_retries
    /\ \E call \in {"response"} \cup CallErrors, finish_reason \in FinishReasons,
          continuation \in {"text", "network error"} :
        LET o == IF call \in CallErrors THEN call
                 ELSE synthesis_outcome(finish_reason, continuation)
            called == [p_synth EXCEPT !.calls = Append(@, o)]
        IN  IF o \notin CallErrors
            THEN /\ p_synth' = [called EXCEPT
                                    !.draft_answer = synthesis_draft(p_synth.attempt, o),
                                    !.synthesis_resp = "response",
                                    !.finish_reason = finish_reason,
                                    !.continuations = IF is_length_limit(finish_reason)
                                                      THEN <<continuation>> ELSE <<>>]
                 /\ p_pc' = "cost"
                 /\ UNCHANGED <<messages, sessions_file>>
            ELSE IF IsQuotaClass(o)
            THEN IF p_synth.attempt < max_retries - 1
                 THEN /\ p_synth' = [called EXCEPT
                            !.waits = Append(@, synthesis_wait_time(p_synth.attempt)),
                            !.attempt = @ + 1]
                      /\ UNCHANGED <<p_pc, messages, sessions_file>>
                 ELSE /\ p_synth' = [called EXCEPT !.draft_answer = DegradedDraft,
                                                   !.attempt = @ + 1]
                      /\ p_pc' = "cost"
                      /\ UNCHANGED <<messages, sessions_file>>
            ELSE /\ p_synth' = called
                 /\ AppendReply(outer_handler(o))
                 /\ p_pc' = "done"
    /\ UNCHANGED <<p_cfg, p_phase1, t_state, t_result, p_pool, p_review, final_answer>>
    /\ UNCHANGED <<routerVars, irVars, exVars>>
    /\ UNCHANGED <<prompt, stop_generation, p_direct, total_cost>>

\* After the loop: the draft_answer None check and the cost of phase 2, which
\* reads synthesis_resp.usage_metadata; on None that is an AttributeError for the
\* outer handler.
SynthesisCost ==
    /\ p_pc = "cost"
    /\ IF p_synth.synthesis_resp = "None"
       THEN /\ AppendReply(outer_handler("'NoneType' object has no attribute 'usage_metadata'"))
            /\ p_pc' = "done"
            /\ UNCHANGED total_cost
       ELSE /\ p_pc' = IF enable_strict(p_cfg) THEN "review" ELSE "finish"
            /\ AddCost
            /\ UNCHANGED <<messages, sessions_file>>
    /\ p_synth' = [p_synth EXCEPT !.draft_answer =
                        IF @ = NoneText THEN <<"phase 2 error", "research memo excerpt">> ELSE @]
    /\ UNCHANGED <<p_cfg, p_phase1, t_state, t_result, p_pool, p_review, final_answer>>
    /\ UNCHANGED <<routerVars, irVars, exVars>>
    /\ UNCHANGED <<prompt, stop_generation, p_direct>>

\* One iteration of the review loop of phase 3 (enable_strict).
ReviewAttempt ==
    /\ p_pc = "review"
    /\ p_review.attempt < max_retries
    /\ \E o \in {"ok"} \cup CallErrors :
        LET called == [p_review EXCEPT !.calls = Append(@, o)]
        IN  IF o = "ok"
            THEN /\ final_answer' = <<ReviewContent(p_review.attempt)>>
                 /\ p_review' = called
                 /\ p_pc' = "secondary"
                 /\ UNCHANGED <<messages, sessions_file>>
            ELSE IF IsQuotaClass(o) /\ p_review.attempt < max_retries - 1
            THEN /\ p_review' = [called EXCEPT
                        !.waits = Append(@, review_wait_time(p_review.attempt)),
                        !.attempt = @ + 1]
                 /\ UNCHANGED <<p_pc, final_answer, messages, sessions_file>>
            ELSE IF IsQuotaClass(o)
            THEN /\ final_answer' = p_synth.draft_answer
                 /\ p_review' = [called EXCEPT !.attempt = @ + 1]
                 /\ p_pc' = "secondary"
                 /\ UNCHANGED <<messages, sessions_file>>
            ELSE /\ p_review' = called
                 /\ AppendReply(outer_handler(o))
                 /\ p_pc' = "done"
                 /\ UNCHANGED final_answer
    /\ UNCHANGED <<p_cfg, p_phase1, t_state, t_result, p_pool, p_synth>>
    /\ UNCHANGED <<routerVars, irVars, exVars>>
    /\ UNCHANGED <<prompt, stop_generation, p_direct, total_cost>>

\* Phase 3b: review_with_grok returns a critique or an "Error calling" text;
\* the status is set and grok_answer is used no further.
SecondaryReview ==
    /\ p_pc = "secondary"
    /\ IF use_grok_reviewer(p_cfg) /\ p_cfg.openrouter
       THEN \E o \in {"critique", "Error calling"} :
                p_review' = [p_review EXCEPT
                    !.grok_answer = <<o>>,
                    !.grok_review_status = IF o = "Error calling" THEN "error" ELSE "success"]
       ELSE UNCHANGED p_review
    /\ p_pc' = "finish"
    /\ UNCHANGED <<p_cfg, p_phase1, t_state, t_result, p_pool, p_synth, final_answer, messages, sessions_file>>
    /\ UNCHANGED <<routerVars, irVars, exVars>>
    /\ UNCHANGED <<prompt, stop_generation, p_direct, total_cost>>

\* The model header put before final_answer in multi-layer mode.
ModelHeader == "model and mode header"

\* The suggested next questions appended to final_answer.
Suggestions == "next question suggestions"

\* After the phases: with enable_strict nothing changes; otherwise multi-layer
\* mode puts the model header before final_answer (still the empty text of the
\* start of the run) and then reads review_resp, a name that was never bound,
\* which is a NameError for the outer handler; the normal category takes
\* final_answer = draft_answer. On the non-research path draft_answer was never
\* bound, so both categories end in a NameError for the outer handler, the
\* multi-layer one after the header was put before final_answer. Otherwise the
\* profile update and the suggestions run inside their own try: the suggestions
\* are appended or the failure is only printed.
Finish ==
    /\ p_pc = "finish"
    /\ IF ~enable_research(p_cfg)
       THEN /\ final_answer' = IF p_cfg.mode.category = MultiLayer
                                THEN <<ModelHeader>> \o final_answer
                                ELSE final_answer
            /\ AppendReply(outer_handler("name 'draft_answer' is not defined"))
            /\ p_pc' = "done"
            /\ UNCHANGED total_cost
       ELSE IF ~enable_strict(p_cfg) /\ p_cfg.mode.category = MultiLayer
       THEN /\ final_answer' = <<ModelHeader>> \o final_answer
            /\ AppendReply(outer_handler("name 'review_resp' is not defined"))
            /\ p_pc' = "done"
            /\ UNCHANGED total_cost
       ELSE /\ \E suggested \in BOOLEAN :
                final_answer' =
                    (IF enable_strict(p_cfg) THEN final_answer ELSE p_synth.draft_answer)
                    \o (IF suggested THEN <<Suggestions>> ELSE <<>>)
            /\ AddCost
            /\ p_pc' = "assemble"
            /\ UNCHANGED <<messages, sessions_file>>
    /\ UNCHANGED <<p_cfg, p_phase1, t_state, t_result, p_pool, p_synth, p_review>>
    /\ UNCHANGED <<routerVars, irVars, exVars>>
    /\ UNCHANGED <<prompt, stop_generation, p_direct>>

\* The heading of the processing history in the final answer.
HistoryHeading == "## processing history"

\* processing_history as rebuilt before the answer is assembled.
processing_history(cfg, pool, review) ==
    <<"Phase 1: research">>
    \o (IF enable_meta(cfg) THEN <<"Phase 1.5a: meta questions">> ELSE <<>>)
    \o (IF pool.grok_status = "success" THEN <<"Phase 1.5b: secondary model ok">>
        ELSE IF pool.grok_status = "error" THEN <<"Phase 1.5b: secondary model error">>
        ELSE IF pool.grok_status = "empty" THEN <<"Phase 1.5b: secondary model no output">>
        ELSE <<>>)
    \o (IF pool.claude45_status = "success" THEN <<"Phase 1.5d: claude ok">>
        ELSE IF pool.claude45_status = "error" THEN <<"Phase 1.5d: claude error">>
        ELSE <<>>)
    \o (IF pool.o4mini_status = "success" THEN <<"Phase 1.5e: o4-mini ok">>
        ELSE IF pool.o4mini_status = "error" THEN <<"Phase 1.5e: o4-mini error">>
        ELSE <<>>)
    \o <<"Phase 2: synthesis">>
    \o (IF enable_strict(cfg)
        THEN <<"Phase 3: strict review">>
             \o (IF use_grok_reviewer(cfg)
                 THEN IF review.grok_review_status = "success"
                      THEN <<"Phase 3b: secondary review ok">>
                      ELSE <<"Phase 3b: secondary review error">>
                 ELSE <<>>)
        ELSE <<>>)

\* final_answer_with_history: the history is put before the answer unless the
\* secondary review succeeded.
final_answer_with_history(cfg, pool, review, answer) ==
    IF review.grok_review_status = "success" THEN answer
    ELSE <<HistoryHeading>> \o processing_history(cfg, pool, review) \o answer

\* The answer is assembled, displayed and appended to the messages of the
\* session.
Assemble ==
    /\ p_pc = "assemble"
    /\ AppendReply([role |-> "model",
                    content |-> final_answer_with_history(p_cfg, p_pool, p_review, final_answer),
                    error |-> FALSE])
    /\ p_pc' = "done"
    /\ UNCHANGED <<p_cfg, p_phase1, t_state, t_result, p_pool, p_synth, p_review, final_answer>>
    /\ UNCHANGED <<routerVars, irVars, exVars>>
    /\ UNCHANGED <<prompt, stop_generation, p_direct, total_cost>>

PipelineNext ==
    \/ Submit \/ DirectAnswer
    \/ Research \/ ExtractIR \/ MetaQuestions
    \/ PoolSubmit \/ TaskRun \/ PoolCollect \/ PoolTimeout \/ PoolUnwind \/ PoolExit
    \/ SynthesisAttempt \/ SynthesisCost \/ ReviewAttempt \/ SecondaryReview
    \/ Finish \/ Assemble

\* Before any call of the router; nothing else is in use.
RouterInit ==
    /\ rpc = "idle"
    /\ renv = NoEnv
    /\ classification = EmptyDict
    /\ pipeline = default_pipeline
    /\ ir_in = JNull
    /\ ir_arg = JNull
    /\ v_pass = MaxPasses
    /\ v_now = 0
    /\ v_result = NoResult
    /\ v_prev = NoResult
    /\ x_pc = "unused"
    /\ x_raw = <<>>
    /\ x_json = <<>>
    /\ x_attempt = 0
    /\ x_usage = ZeroUsage
    /\ x_ir = JNull
    /\ x_ret = <<>>
    /\ p_pc = "unused"
    /\ p_cfg = [mode |-> [category |-> NormalCategory, kw |-> {}], openrouter |-> FALSE,
                aws |-> FALSE, github |-> FALSE]
    /\ p_phase1 = NoPhase1
    /\ t_state = [t \in Tasks |-> "idle"]
    /\ t_result = [t \in Tasks |-> NoTaskResult]
    /\ p_pool = NoPool
    /\ p_synth = NoSynth
    /\ p_review = NoReview
    /\ final_answer = <<>>
    /\ messages = <<>>
    /\ prompt = NoPrompt
    /\ stop_generation = FALSE
    /\ total_cost = "below"
    /\ p_direct = <<>>
    /\ sessions_file = <<>>

\* A caller holds a dictionary to normalize; the router and the extractor are
\* not in use.
IRInit ==
    /\ \E f \in SectionValues(FactInputs, MaxItems) :
       \E o \in SectionValues(OptionInputs, MaxItems - Cost(f)) :
       \E r \in SectionValues(RiskInputs, MaxItems - Cost(f) - Cost(o)) :
       \E u \in SectionValues(UnknownInputs, MaxItems - Cost(f) - Cost(o) - Cost(r)) :
       \E m \in MetadataValues(MaxItems - Cost(f) - Cost(o) - Cost(r) - Cost(u)) :
       \E x \in {IRDict(f, o, r, u, m)} \cup NonDictInputs :
            ir_in = x
    /\ ir_arg = ir_in
    /\ v_pass = 0
    /\ v_now = 0
    /\ v_result = NoResult
    /\ v_prev = NoResult
    /\ rpc = "unused"
    /\ renv = NoEnv
    /\ classification = EmptyDict
    /\ pipeline = default_pipeline
    /\ x_pc = "unused"
    /\ x_raw = <<>>
    /\ x_json = <<>>
    /\ x_attempt = 0
    /\ x_usage = ZeroUsage
    /\ x_ir = JNull
    /\ x_ret = <<>>
    /\ p_pc = "unused"
    /\ p_cfg = [mode |-> [category |-> NormalCategory, kw |-> {}], openrouter |-> FALSE,
                aws |-> FALSE, github |-> FALSE]
    /\ p_phase1 = NoPhase1
    /\ t_state = [t \in Tasks |-> "idle"]
    /\ t_result = [t \in Tasks |-> NoTaskResult]
    /\ p_pool = NoPool
    /\ p_synth = NoSynth
    /\ p_review = NoReview
    /\ final_answer = <<>>
    /\ messages = <<>>
    /\ prompt = NoPrompt
    /\ stop_generation = FALSE
    /\ total_cost = "below"
    /\ p_direct = <<>>
    /\ sessions_file = <<>>

\* Before the call of extract_facts_and_risks_v2; the router and the normalizer
\* loop are not in use.
ExtractInit ==
    /\ x_pc = "idle"
    /\ x_raw = <<>>
    /\ x_json = <<>>
    /\ x_attempt = 0
    /\ x_usage = ZeroUsage
    /\ x_ir = JNull
    /\ x_ret = <<>>
    /\ rpc = "unused"
    /\ renv = NoEnv
    /\ classification = EmptyDict
    /\ pipeline = default_pipeline
    /\ ir_in = JNull
    /\ ir_arg = JNull
    /\ v_pass = MaxPasses
    /\ v_now = 0
    /\ v_result = NoResult
    /\ v_prev = NoResult
    /\ p_pc = "unused"
    /\ p_cfg = [mode |-> [category |-> NormalCategory, kw |-> {}], openrouter |-> FALSE,
                aws |-> FALSE, github |-> FALSE]
    /\ p_phase1 = NoPhase1
    /\ t_state = [t \in Tasks |-> "idle"]
    /\ t_result = [t \in Tasks |-> NoTaskResult]
    /\ p_pool = NoPool
    /\ p_synth = NoSynth
    /\ p_review = NoReview
    /\ final_answer = <<>>
    /\ messages = <<>>
    /\ prompt = NoPrompt
    /\ stop_generation = FALSE
    /\ total_cost = "below"
    /\ p_direct = <<>>
    /\ sessions_file = <<>>

\* A prompt has been entered in a research mode: the run is about to make its
\* research call; final_answer = "" and no message has been appended.
PipelineInit ==
    /\ p_pc = "submitted"
    /\ p_cfg \in Configs
    /\ p_phase1 = NoPhase1
    /\ t_state = [t \in Tasks |-> "idle"]
    /\ t_result = [t \in Tasks |-> NoTaskResult]
    /\ p_pool = NoPool
    /\ p_synth = NoSynth
    /\ p_review = NoReview
    /\ final_answer = <<>>
    /\ messages = <<>>
    /\ prompt \in Questions
    /\ total_cost \in {"below", "reached"}
    /\ stop_generation = budget_reached(total_cost)
    /\ p_direct = <<>>
    /\ sessions_file = <<>>
    /\ rpc = "unused"
    /\ renv = NoEnv
    /\ classification = EmptyDict
    /\ pipeline = default_pipeline
    /\ ir_in = JNull
    /\ ir_arg = JNull
    /\ v_pass = MaxPasses
    /\ v_now = 0
    /\ v_result = NoResult
    /\ v_prev = NoResult
    /\ x_pc = "unused"
    /\ x_raw = <<>>
    /\ x_json = <<>>
    /\ x_attempt = 0
    /\ x_usage = ZeroUsage
    /\ x_ir = JNull
    /\ x_ret = <<>>

\* The router alone.
SpecRouter == RouterInit /\ [][RouterNext]_vars

\* The normalizer alone.
SpecIR == IRInit /\ [][IRNext]_vars

\* The extractor alone.
SpecExtract == ExtractInit /\ [][ExtractNext]_vars

\* The deep-thinking run of the chat pipeline alone.
SpecPipeline == PipelineInit /\ [][PipelineNext]_vars

(***************************************************************************)
(* Router claims                                                           *)
(***************************************************************************)

\* The classification names a high-risk domain.
CriticalDomain(c) == "domain" \in DOMAIN c /\ c["domain"] \in {"medical", "legal", "finance"}

\* Rule 1 of the decision table applies to c, read off the classification itself.
MatchesRule1(c) == Has(c, "risk_level", "high") \/ CriticalDomain(c)

\* Rule 2 of the decision table applies to c.
MatchesRule2(c) == Has(c, "complexity", "high") \/ Has(c, "needs_cross_check", TRUE)

\* Rule 3 of the decision table applies to c.
MatchesRule3(c) == Has(c, "complexity", "medium") \/ Has(c, "needs_research", TRUE)

\* The X-search rule applies to c.
WantsXSearch(c) == Has(c, "needs_x_search", TRUE) \/ Has(c, "domain", "news")

\* C1: a classification with risk_level high or a medical, legal or finance domain
\* is routed to full_verify with research, meta and strict review on and all three
\* consultant roles enabled, whatever its complexity and needs_* flags are.
C1_HighRiskFullVerify ==
    (rpc = "routed" /\ MatchesRule1(classification)) =>
        /\ pipeline.mode_name = "full_verify"
        /\ pipeline.enable_research /\ pipeline.enable_meta /\ pipeline.enable_strict
        /\ pipeline.use_grok /\ pipeline.use_claude /\ pipeline.use_o4_mini

\* A finance question of low complexity and low risk that needs nothing has been
\* routed to full_verify.
C1_Witness ==
    /\ rpc = "routed"
    /\ Has(classification, "domain", "finance")
    /\ Has(classification, "risk_level", "low")
    /\ Has(classification, "complexity", "low")
    /\ Has(classification, "needs_research", FALSE)
    /\ Has(classification, "needs_cross_check", FALSE)
    /\ pipeline.mode_name = "full_verify"

\* The classification holds only values analyze_question_for_routing lets through.
WellFormed(c) ==
    /\ DOMAIN c = DOMAIN safe_default
    /\ c["complexity"] \in valid_complexity
    /\ c["risk_level"] \in valid_risk
    /\ c["domain"] \in Domains

\* C2: the result is light only for a classification with complexity low and
\* risk_level low, and light mode has research, meta and strict review off.
C2_LightOnlyLowLow ==
    (rpc = "routed" /\ WellFormed(classification) /\ pipeline.mode_name = "light") =>
        /\ classification["complexity"] = "low"
        /\ classification["risk_level"] = "low"
        /\ ~pipeline.enable_research /\ ~pipeline.enable_meta /\ ~pipeline.enable_strict

\* C3 as stated: under rule 2 the mode is research_meta with research and meta on
\* and strict off, the structural role is enabled exactly for high complexity, and
\* no other role is enabled unless the X-search rule forces the contrarian one.
C3_Original ==
    (rpc = "routed" /\ ~MatchesRule1(classification) /\ MatchesRule2(classification)) =>
        /\ pipeline.mode_name = "research_meta"
        /\ pipeline.enable_research /\ pipeline.enable_meta /\ ~pipeline.enable_strict
        /\ pipeline.use_claude <=> Has(classification, "complexity", "high")
        /\ ~pipeline.use_o4_mini
        /\ pipeline.use_grok => WantsXSearch(classification)

\* C3 amended: under rule 2 the mode is research_meta with research and meta on
\* and strict off, the contrarian role use_grok is always enabled, the structural
\* role use_claude is enabled exactly for high complexity and use_o4_mini never.
C3_ResearchMeta ==
    (rpc = "routed" /\ ~MatchesRule1(classification) /\ MatchesRule2(classification)) =>
        /\ pipeline.mode_name = "research_meta"
        /\ pipeline.enable_research /\ pipeline.enable_meta /\ ~pipeline.enable_strict
        /\ pipeline.use_claude <=> Has(classification, "complexity", "high")
        /\ ~pipeline.use_o4_mini
        /\ pipeline.use_grok

\* A medium-complexity question that needs a cross check and no X search has been
\* routed to research_meta, with the contrarian role on and the structural one off.
C3_Witness ==
    /\ rpc = "routed"
    /\ ~MatchesRule1(classification)
    /\ Has(classification, "complexity", "medium")
    /\ Has(classification, "needs_cross_check", TRUE)
    /\ ~WantsXSearch(classification)
    /\ pipeline.mode_name = "research_meta"
    /\ pipeline.use_grok /\ ~pipeline.use_claude

\* C4: when rules 1 and 2 do not apply and complexity is medium or research is
\* needed, the mode is research with research on, meta and strict off, and no
\* consultant role enabled except the contrarian one under the X-search rule.
C4_Research ==
    (rpc = "routed" /\ ~MatchesRule1(classification) /\ ~MatchesRule2(classification)
        /\ MatchesRule3(classification)) =>
        /\ pipeline.mode_name = "research"
        /\ pipeline.enable_research /\ ~pipeline.enable_meta /\ ~pipeline.enable_strict
        /\ ~pipeline.use_claude /\ ~pipeline.use_o4_mini
        /\ pipeline.use_grok => WantsXSearch(classification)

\* A low-complexity question that needs research and no X search has been routed
\* to research with no consultant role.
C4_Witness ==
    /\ rpc = "routed"
    /\ ~MatchesRule1(classification) /\ ~MatchesRule2(classification)
    /\ Has(classification, "complexity", "low")
    /\ Has(classification, "needs_research", TRUE)
    /\ ~WantsXSearch(classification)
    /\ pipeline.mode_name = "research"
    /\ ~pipeline.use_grok /\ ~pipeline.use_claude /\ ~pipeline.use_o4_mini

\* C5: use_x_search is true exactly when needs_x_search is true or the domain is
\* news, it brings the contrarian role use_grok with it, and the step that applies
\* the rule changes neither mode_name nor the research, meta and strict flags the
\* decision table chose.
C5_XSearch ==
    /\ [](rpc = "routed" =>
            /\ pipeline.use_x_search <=> WantsXSearch(classification)
            /\ pipeline.use_x_search => pipeline.use_grok)
    /\ [][rpc = "branched" =>
            /\ pipeline'.mode_name = pipeline.mode_name
            /\ pipeline'.enable_research = pipeline.enable_research
            /\ pipeline'.enable_meta = pipeline.enable_meta
            /\ pipeline'.enable_strict = pipeline.enable_strict]_vars

\* A news question routed to light mode has X search and the contrarian role on
\* and research still off.
C5_Witness ==
    /\ rpc = "routed"
    /\ Has(classification, "domain", "news")
    /\ Has(classification, "needs_x_search", FALSE)
    /\ pipeline.mode_name = "light"
    /\ pipeline.use_x_search /\ pipeline.use_grok /\ ~pipeline.enable_research

\* The environment made this call of analyze_question_for_routing fail.
AnalyzeFailed(e) ==
    \/ ~e.import_ok
    \/ ~e.call_ok
    \/ e.text \in {"none", "not_json", "non_object"}

\* C6: analyze_question_for_routing never raises, and a call that fails at any
\* step returns the safe default classification.
C6_AnalyzeNeverRaises ==
    /\ rpc # "raised"
    /\ (rpc = "classified" /\ AnalyzeFailed(renv)) => classification = safe_default

(***************************************************************************)
(* Normalizer claims                                                       *)
(***************************************************************************)

\* The four list sections of a ResearchIR.
ListSections == {"facts", "options", "risks", "unknowns"}

\* ir is a dict whose sections, where present, are lists.
SectionsAreLists(ir) ==
    /\ ir.t = "dict"
    /\ \A k \in ListSections : k \in DOMAIN ir.d => ir.d[k].t = "list"

\* The dict items of section k of the input ir, in order: the items that are kept.
KeptItems(ir, k) ==
    IF k \in DOMAIN ir.d THEN SelectSeq(ir.d[k].items, IsDict) ELSE <<>>

\* The enum fields of the items of each section, each with its declared set.
EnumFields(k) ==
    IF k = "facts" THEN {<<"source", SourceLiteral>>, <<"confidence", LevelLiteral>>}
    ELSE IF k = "risks" THEN {<<"severity", LevelLiteral>>, <<"timeframe", TimeframeLiteral>>}
    ELSE IF k = "unknowns" THEN {<<"why_unknown", ReasonLiteral>>, <<"impact", LevelLiteral>>}
    ELSE {}

\* The strings of a declared set, as values.
Members(valid) == {JStr(x) : x \in valid}

\* The input item gives the field no value of its declared set.
MissingOrUnrecognized(item, f) == f[1] \notin DOMAIN item.d \/ item.d[f[1]] \notin Members(f[2])

\* The input item gives the field a value that is outside its declared set.
OutOfSet(item, f) == f[1] \in DOMAIN item.d /\ item.d[f[1]] \notin Members(f[2])

\* The first call has returned an IR for an input whose sections are lists.
FirstPassDone == v_pass = 1 /\ ~v_result.raised /\ SectionsAreLists(ir_in)

\* C7: after validate_research_ir, every enum field of every kept item holds a
\* member of its declared set, and a confidence, severity, timeframe, why_unknown
\* or impact that was missing or unrecognized holds unknown.
C7_EnumsInDeclaredSets ==
    FirstPassDone =>
        \A k \in {"facts", "risks", "unknowns"} :
            /\ Len(v_result.ir.d[k].items) = Len(KeptItems(ir_in, k))
            /\ \A j \in 1..Len(KeptItems(ir_in, k)) : \A f \in EnumFields(k) :
                /\ v_result.ir.d[k].items[j].d[f[1]] \in Members(f[2])
                /\ (f[1] # "source" /\ MissingOrUnrecognized(KeptItems(ir_in, k)[j], f))
                        => v_result.ir.d[k].items[j].d[f[1]] = JStr("unknown")

\* A risk whose severity is an unrecognized string and whose timeframe is null has
\* been normalized, after an item that was dropped: both fields hold unknown.
C7_Witness ==
    /\ FirstPassDone
    /\ "risks" \in DOMAIN ir_in.d
    /\ Len(ir_in.d.risks.items) = 2
    /\ ir_in.d.risks.items[1] = NonDictItem
    /\ ir_in.d.risks.items[2] = JDict([severity |-> JNull, timeframe |-> JNull])
    /\ Len(v_result.ir.d.risks.items) = 1
    /\ v_result.ir.d.risks.items[1].d.severity = JStr("unknown")
    /\ v_result.ir.d.risks.items[1].d.timeframe = JStr("unknown")

RECURSIVE SumSeq(_)
\* The sum of a sequence of numbers.
SumSeq(ns) == IF ns = <<>> THEN 0 ELSE Head(ns) + SumSeq(Tail(ns))

\* The number of enum fields of a kept item whose input value is out of set.
OutOfSetCount(item, k) == Cardinality({f \in EnumFields(k) : OutOfSet(item, f)})

\* The number of out-of-set enum values in section k of the input.
OutOfSetIn(ir, k) ==
    SumSeq([j \in 1..Len(KeptItems(ir, k)) |-> OutOfSetCount(KeptItems(ir, k)[j], k)])

\* The number of out-of-set enum values in the input.
OutOfSetTotal(ir) == OutOfSetIn(ir, "facts") + OutOfSetIn(ir, "risks") + OutOfSetIn(ir, "unknowns")

\* The text field of the items of a section.
TextField(k) == IF k = "unknowns" THEN "question" ELSE "statement"

\* 1 for a kept fact, risk or unknown whose statement or question is absent or
\* empty, 0 otherwise.
EmptyTextCount(item, k) ==
    IF k # "options" /\ (TextField(k) \notin DOMAIN item.d \/ item.d[TextField(k)] = JStr(""))
    THEN 1 ELSE 0

\* The number of items of section k that are no dict.
DroppedCount(ir, k) ==
    IF k \in DOMAIN ir.d THEN Len(ir.d[k].items) - Len(KeptItems(ir, k)) ELSE 0

\* The number of kept items of section k with an empty statement or question.
EmptyTextIn(ir, k) ==
    SumSeq([j \in 1..Len(KeptItems(ir, k)) |-> EmptyTextCount(KeptItems(ir, k)[j], k)])

\* The number of defects validate_research_ir warns about.
DefectTotal(ir) ==
    DroppedCount(ir, "facts") + DroppedCount(ir, "options")
    + DroppedCount(ir, "risks") + DroppedCount(ir, "unknowns")
    + EmptyTextIn(ir, "facts") + EmptyTextIn(ir, "risks") + EmptyTextIn(ir, "unknowns")
    + (IF KeptItems(ir, "facts") = <<>> THEN 1 ELSE 0)

\* C8 as stated: an input with k out-of-set enum values yields at least k warnings.
C8_Original == FirstPassDone => Len(v_result.warnings) >= OutOfSetTotal(ir_in)

\* C8 amended: coercing an enum field records no warning. The warnings are one per
\* item that is no dict, one per kept fact, risk or unknown with an empty statement
\* or question, and one when no fact is kept, however many enum values are out of
\* set.
C8_WarningsIgnoreEnums == FirstPassDone => Len(v_result.warnings) = DefectTotal(ir_in)

\* An input with two out-of-set enum values and no other defect has been
\* normalized with no warning.
C8_Witness ==
    /\ FirstPassDone
    /\ OutOfSetTotal(ir_in) = 2
    /\ DefectTotal(ir_in) = 0
    /\ v_result.warnings = <<>>

\* C9: validate_research_ir applied to its own output returns an equal IR, and
\* applied once more returns the same IR and the same warnings.
C9_Idempotent ==
    v_pass >= 2 =>
        /\ ~v_result.raised
        /\ v_result.ir = v_prev.ir
        /\ v_pass >= 3 => v_result.warnings = v_prev.warnings

\* The output of an input with a dropped item, a fact without statement or
\* confidence and no metadata (so created_at was stamped by the first call) has
\* been normalized twice more, and the third call repeats the second's warnings.
C9_Witness ==
    /\ v_pass = 3
    /\ ~v_result.raised
    /\ ir_in.t = "dict"
    /\ "metadata" \notin DOMAIN ir_in.d
    /\ "facts" \in DOMAIN ir_in.d
    /\ ir_in.d.facts = JList(<<NonDictItem, JDict(EmptyDict)>>)
    /\ v_result.ir = v_prev.ir
    /\ v_result.ir.d.metadata.d.created_at = JStr("T0")
    /\ v_result.warnings = <<Warning("empty", "Fact", 0)>>

(***************************************************************************)
(* Extractor claims                                                        *)
(***************************************************************************)

\* The call has returned to its caller.
Returned == x_pc = "returned"

\* The call was answered by the except clause of the function.
HandledException == Returned /\ x_ret[2] = ZeroUsage /\ x_ret[1] = JNull /\ Len(x_ret[3]) = 1 /\ x_ret[3][1] \in {"ImportError", "TypeError", "APIError", "AttributeError"}

\* C10: extract_facts_and_risks_v2 never lets an exception reach its caller;
\* whatever the arguments, the provider and the normalizer do, a call that has
\* ended has returned a tuple of three elements: the IR or None, a usage dict
\* with both token counts, and a text.
C10_ExtractNeverRaises ==
    /\ x_pc # "raised"
    /\ Returned =>
        /\ Len(x_ret) = 3
        /\ x_ret[1].t \in {"null", "dict"}
        /\ DOMAIN x_ret[2] = {"prompt_tokens", "output_tokens"}
        /\ x_ret[3] \in Seq(Tokens \cup {FenceOpen, FenceClose, "ImportError", "TypeError", "APIError", "AttributeError"})

\* The model's answer parsed on the second attempt to a value that is no dict,
\* the normalizer raised, and the function returned (None, zeros, str(e)).
C10_Witness ==
    /\ HandledException
    /\ x_attempt = 1
    /\ x_ir.t = "list"
    /\ x_ret[3] = ErrText("AttributeError")

Unparseable(raw) ==
    /\ ~json_loads(StripFences(raw)).ok
    /\ ~json_loads(Repair(StripFences(raw))).ok

PoolStatus(pool, t) ==
    IF t = "grok" THEN pool.grok_status
    ELSE IF t = "claude" THEN pool.claude45_status
    ELSE pool.o4mini_status

\* The stages of phase 2 and later, which on the research path follow the
\* with-block of the pool.
AfterPool == {"synthesis", "cost", "review", "secondary", "finish", "assemble"}

\* The run has ended with an answer appended to the messages of the session.
Delivered == p_pc = "done" /\ Len(messages) = 2

\* The run has ended with the fallback answer of the outer handler.
ErrorSurfaced == Delivered /\ messages[2].error

\* C12: the consultant tasks are isolated. A task whose own provider call raises
\* or answers with an error text ends with status error and its detail (in error
\* or in thought); a task whose call answers with a text ends with status
\* success, whatever the other tasks do; no task function lets an exception
\* escape; every task that was started has run to its end when the pool is left;
\* and each collected result is stored under its own role.
C12_ConsultantIsolation ==
    \A t \in Tasks :
        /\ t_state[t] = "done" =>
            LET r == t_result[t]
            IN  /\ ~r.raised
                /\ r.call \in {"raises", "error text"} =>
                        r.status = "error" /\ (r.error # "None" \/ r.thought # <<>>)
                /\ r.call = "text" => r.status = "success" /\ r.thought # <<>>
                /\ r.call = "none" => r.status = "skipped"
        /\ (t_state[t] # "idle" /\ p_pc \notin {"collect", "unwinding"}) => t_state[t] = "done"
        /\ t \in p_pool.collected =>
                t_state[t] = "done" /\ PoolStatus(p_pool, t) = t_result[t].status

\* The call of grok raised, the calls of claude and o4-mini answered, and the
\* pool has been left with one error and two successes.
C12_Witness ==
    /\ p_pc = "synthesis"
    /\ t_result["grok"].call = "raises"
    /\ p_pool.grok_status = "error"
    /\ p_pool.grok_error_msg # "None"
    /\ p_pool.claude45_status = "success"
    /\ p_pool.o4mini_status = "success"

\* C13: when the 60 seconds of the pool are over with a task still pending, the
\* run goes on to synthesis and never ends with the fallback answer of the
\* outer handler on account of the timeout.
C13_TimeoutContinues == (p_pool.timed_out /\ p_pc = "done") => ~ErrorSurfaced

\* The synthesis call has been issued.
SynthesisStarted == Len(p_synth.calls) > 0

\* C14: in every interleaving of the worker threads, phase 2 begins and the
\* synthesis call is issued only when each of the three submitted tasks has run
\* to its end; no consultant task is running then.
C14_FanIn ==
    ((enable_research(p_cfg) /\ p_pc \in AfterPool) \/ SynthesisStarted) =>
        \A t \in Tasks : t_state[t] = "done"

\* The synthesis call has been issued after three tasks that all made their
\* provider calls.
C14_Witness ==
    /\ SynthesisStarted
    /\ \A t \in Tasks : t_state[t] = "done" /\ t_result[t].call # "none"

\* The synthesis call failed with a quota error on attempts 1 and 2 and answered
\* on attempt 3.
QuotaQuotaOk ==
    /\ Len(p_synth.calls) = 3
    /\ IsQuotaClass(p_synth.calls[1])
    /\ IsQuotaClass(p_synth.calls[2])
    /\ p_synth.calls[3] \notin CallErrors

\* C15: no more than 3 synthesis attempts are ever made; and when the call fails
\* with a quota error on attempts 1 and 2 and succeeds on attempt 3, the draft
\* is the third attempt's content (followed by its continuation when that answer
\* was cut), exactly two waits occurred and the second is longer than the first.
C15_SynthesisRetry ==
    /\ Len(p_synth.calls) <= max_retries
    /\ Len(p_synth.waits) < max_retries
    /\ QuotaQuotaOk =>
        /\ p_synth.draft_answer = synthesis_draft(2, p_synth.calls[3])
        /\ p_synth.draft_answer[1] = SynthContent(2)
        /\ p_synth.calls[3] = "ok" => p_synth.draft_answer = <<SynthContent(2)>>
        /\ Len(p_synth.waits) = 2
        /\ p_synth.waits[1] < p_synth.waits[2]

\* Two quota errors, waits of 30 and 45 seconds, then the answer of the third
\* attempt as the draft.
C15_Witness ==
    /\ QuotaQuotaOk
    /\ p_synth.calls[3] = "ok"
    /\ p_synth.waits = <<30, 45>>
    /\ p_synth.draft_answer = <<"synthesis answer of attempt 3">>
    /\ p_pc = "cost"

\* The synthesis call failed with a quota error on all 3 attempts.
SynthesisExhausted ==
    /\ Len(p_synth.calls) = max_retries
    /\ \A i \in 1..max_retries : IsQuotaClass(p_synth.calls[i])

\* C16: when the synthesis call fails with a quota error on all 3 attempts, the
\* run ends without the fallback answer of the outer handler.
C16_DegradedAnswerDelivered == (SynthesisExhausted /\ p_pc = "done") => ~ErrorSurfaced

\* The research call failed.
ResearchFailed ==
    /\ Len(p_phase1.research_calls) > 0
    /\ p_phase1.research_calls[1] \in CallErrors

\* C17: a run whose research call failed still ends with an answer that is not
\* the fallback answer of the outer handler.
C17_ResearchFailureRecovered == (ResearchFailed /\ p_pc = "done") => ~ErrorSurfaced

\* The last call of the strict review failed.
ReviewFailed ==
    /\ Len(p_review.calls) > 0
    /\ p_review.calls[Len(p_review.calls)] \in CallErrors

\* C18: a run whose strict review failed, by quota errors on all 3 attempts or
\* by any other error, ends without the fallback answer of the outer handler.
C18_ReviewFailureKeepsDraft == (ReviewFailed /\ p_pc = "done") => ~ErrorSurfaced

\* C19: when the secondary review returned a critique, the delivered text ends
\* with the critique, beneath the final answer.
C19_CritiqueAppended ==
    (Delivered /\ ~ErrorSurfaced /\ p_review.grok_review_status = "success") =>
        /\ Len(messages[2].content) > Len(final_answer)
        /\ messages[2].content[Len(messages[2].content)] = "critique"

\* C20: every answer the pipeline delivers, after a successful secondary review
\* too, begins with the processing history.
C20_AnswerCarriesHistory ==
    (Delivered /\ ~ErrorSurfaced) =>
        /\ Len(messages[2].content) > 0
        /\ messages[2].content[1] = HistoryHeading

\* The entries processing_history holds for the role of task t.
RoleEntries(t) ==
    IF t = "grok"
    THEN [success |-> "Phase 1.5b: secondary model ok",
          error |-> "Phase 1.5b: secondary model error",
          empty |-> "Phase 1.5b: secondary model no output"]
    ELSE IF t = "claude"
    THEN [success |-> "Phase 1.5d: claude ok", error |-> "Phase 1.5d: claude error"]
    ELSE [success |-> "Phase 1.5e: o4-mini ok", error |-> "Phase 1.5e: o4-mini error"]

\* The text holds the entry of the role of task t for the given status.
RoleLogged(content, t, status) ==
    /\ status \in DOMAIN RoleEntries(t)
    /\ \E i \in 1..Len(content) : content[i] = RoleEntries(t)[status]

\* C21: the processing log of a delivered answer records the outcome of every
\* consultant role: a role that ended with status success, error or skipped has
\* an entry with that status in the delivered text.
C21_LogRecordsEveryRole ==
    (Delivered /\ ~ErrorSurfaced) =>
        \A t \in Tasks :
            PoolStatus(p_pool, t) \in {"success", "error", "skipped"} =>
                RoleLogged(messages[2].content, t, PoolStatus(p_pool, t))

(***************************************************************************)
(* Pipeline claims: the budget gate, the reply, the non-research path      *)
(***************************************************************************)

\* No call of a provider was made in this run: no research, extraction, meta,
\* direct, consultant, synthesis or review call is on record.
NoProviderCall ==
    /\ p_phase1 = NoPhase1
    /\ p_direct = <<>>
    /\ \A t \in Tasks : t_state[t] = "idle" /\ t_result[t] = NoTaskResult
    /\ p_synth = NoSynth
    /\ p_review = NoReview

\* C22: the budget check is made once, on the total cost at submission, before
\* any provider call. A request submitted with the total at or above the limit
\* is rejected whole: no provider call, nothing appended to the session, nothing
\* saved. A request admitted below the limit is never rejected or stopped
\* afterwards: until its reply is appended a next step is always possible, also
\* once the accumulated cost has reached the limit.
C22_BudgetGate ==
    /\ p_pc = "submitted" => (stop_generation <=> total_cost = "reached") /\ NoProviderCall
    /\ stop_generation =>
            /\ p_pc \in {"submitted", "rejected"}
            /\ total_cost = "reached"
            /\ NoProviderCall
            /\ messages = <<>> /\ sessions_file = <<>>
    /\ ~stop_generation =>
            /\ p_pc # "rejected"
            /\ p_pc # "done" => ENABLED PipelineNext

\* An admitted request whose cost reached the limit in mid-run and which still
\* ran to its assembled answer.
C22_Witness ==
    /\ p_pc = "done" /\ ~stop_generation /\ total_cost = "reached"
    /\ Len(messages) = 2 /\ ~messages[2].error
    /\ p_synth.calls # <<>>

Carries(content, answer) ==
    \A i \in 1..Len(answer) : \E j \in 1..Len(content) : content[j] = answer[i]

\* C27: on the non-research path at most one direct generation call is made and
\* no research, extraction, meta, consultant, synthesis or review call; and when
\* that call answered, the run ends with its text delivered and stored in the
\* session, not with the fallback answer of the outer handler.
C27_DirectPath ==
    ~enable_research(p_cfg) =>
        /\ Len(p_direct) <= 1
        /\ p_phase1 = NoPhase1 /\ p_synth = NoSynth /\ p_review = NoReview
        /\ \A t \in Tasks : t_state[t] = "idle"
        /\ (p_pc = "done" /\ p_direct = <<"answer">>) =>
                /\ Len(messages) = 2
                /\ ~messages[2].error
                /\ Carries(messages[2].content, <<DirectContent>>)
                /\ sessions_file = messages

\* The last synthesis call answered.
SynthesisAnswered ==
    /\ Len(p_synth.calls) > 0
    /\ p_synth.calls[Len(p_synth.calls)] \notin CallErrors

\* C29: on the research path without the strict review, in both mode
\* categories, a run whose synthesis call answered ends with an answer that
\* holds the synthesis draft and is not the fallback answer of the outer
\* handler.
C29_NonStrictKeepsDraft ==
    (enable_research(p_cfg) /\ ~enable_strict(p_cfg) /\ SynthesisAnswered /\ p_pc = "done") =>
        /\ Len(messages) = 2
        /\ ~messages[2].error
        /\ Carries(messages[2].content, p_synth.draft_answer)

\* What the configuration says about task t: the mode keywords and API keys
\* that enable its role.
TaskGate(cfg, t) ==
    IF t = "grok" THEN enable_meta(cfg) /\ cfg.openrouter
    ELSE IF t = "claude" THEN InMode(cfg, "Az") /\ cfg.aws
    ELSE is_ms_az_mode(cfg) /\ cfg.github

\* Task t has made its provider call.
TaskCalled(t) == t_state[t] = "done" /\ t_result[t].call # "none"

\* The stages other than the consultant tasks run by the configuration alone:
\* the direct call without enable_research and the research call with it, the
\* extraction in ms/Az mode, the meta questions with enable_meta, the review
\* with enable_strict.
StagesByConfig ==
    /\ p_direct # <<>> => ~enable_research(p_cfg)
    /\ p_phase1.research_calls # <<>> => enable_research(p_cfg)
    /\ p_pc = "pool" =>
            /\ p_phase1.fact_summary # <<>> <=> is_ms_az_mode(p_cfg)
            /\ p_phase1.questions_text # <<>> <=> enable_meta(p_cfg)
    /\ p_synth.calls # <<>> => enable_research(p_cfg)
    /\ p_review.calls # <<>> => enable_strict(p_cfg)
    /\ p_pc = "finish" /\ enable_research(p_cfg) => (p_review.calls # <<>> <=> enable_strict(p_cfg))

\* C23 as stated: which stages and which consultant tasks run is fixed by the
\* configuration alone, whatever the question: a task that has finished made
\* its provider call exactly when the configuration enables its role.
C23_GatingByConfigOnly ==
    /\ StagesByConfig
    /\ \A t \in Tasks : t_state[t] = "done" => (TaskCalled(t) <=> TaskGate(p_cfg, t))

\* C23, amended: the same, except that the o4-mini task is also skipped when
\* the question together with its input text is longer than 3800 characters.
\* The keyword test of the question decides nothing about what runs.
C23_GatingByConfigAndInputLength ==
    /\ StagesByConfig
    /\ \A t \in {"grok", "claude"} : t_state[t] = "done" => (TaskCalled(t) <=> TaskGate(p_cfg, t))
    /\ t_state["o4mini"] = "done" =>
            (TaskCalled("o4mini") <=>
                TaskGate(p_cfg, "o4mini") /\ o4mini_input_len(prompt, p_phase1) <= InputLimit)

\* A question with an X keyword that is too long for o4-mini: the secondary
\* model and claude made their calls, o4-mini was skipped although the
\* configuration enables it.
C23_Witness ==
    /\ prompt.x_keyword
    /\ TaskCalled("grok") /\ TaskCalled("claude")
    /\ TaskGate(p_cfg, "o4mini")
    /\ t_state["o4mini"] = "done" /\ ~TaskCalled("o4mini")
    /\ p_pool.o4mini_status = "skipped" /\ "o4mini" \in p_pool.collected

\* C24: within a synthesis attempt a continuation call is made once, exactly
\* when the finish reason of the response signals a length limit. Its text is
\* appended after the truncated draft, which stays in front; when the
\* continuation call fails the truncated draft stays with a note after it, the
\* synthesis stage is left as answered, no further synthesis call is made and
\* nothing is appended to the session by the stage.
C24_ContinuationOnce ==
    /\ Len(p_synth.continuations) <= 1
    /\ p_synth.finish_reason = "None" => p_synth.continuations = <<>>
    /\ p_synth.finish_reason # "None" =>
        LET answered == SynthContent(p_synth.attempt)
        IN  /\ Len(p_synth.continuations) = 1 <=> p_synth.finish_reason \in {"MAX_TOKENS", "LENGTH"}
            /\ p_synth.continuations = <<>> => p_synth.draft_answer = <<answered>>
            /\ p_synth.continuations = <<"text">> =>
                    p_synth.draft_answer = <<answered, "continuation">>
            /\ (p_synth.continuations # <<>> /\ p_synth.continuations # <<"text">>) =>
                    p_synth.draft_answer = <<answered, "continuation failed">>
            /\ p_pc # "synthesis"
            /\ Len(p_synth.calls) = p_synth.attempt + 1
            /\ p_synth.synthesis_resp = "response"
            /\ p_pc = "cost" => Len(messages) = 1

\* The second attempt was cut by the length limit and its continuation call
\* failed: the stage is left with the truncated draft and the note.
C24_Witness ==
    /\ p_pc = "cost"
    /\ p_synth.attempt = 1
    /\ p_synth.finish_reason = "LENGTH"
    /\ p_synth.continuations = <<"network error">>
    /\ p_synth.draft_answer = <<SynthContent(1), "continuation failed">>

\* The thought recorded for the role of task t.
PoolThought(pool, t) ==
    IF t = "grok" THEN pool.grok_thought
    ELSE IF t = "claude" THEN pool.claude45_thought
    ELSE pool.o4mini_thought

\* The texts a consultant task can return in thought, answers and error texts.
ConsultantTexts ==
    {"grok thought", "claude thought", "o4-mini thought",
     "Error calling Claude 4.5 Sonnet (Bedrock)", "Error calling o4-mini (GitHub Models)"}

\* The block is one of the blocks of the prompt.
InPrompt(block) ==
    \E i \in 1..Len(p_synth.synthesis_prompt_text) : p_synth.synthesis_prompt_text[i] = block

\* C25: only successful consultant output reaches synthesis. A consultant text
\* in the synthesis prompt is the thought of a role whose status is success (so
\* no text of a role with status error, empty or skipped, and no provider error
\* text, is in it); and when no role has status success the prompt does not
\* tell the model to use the answers of the other models.
C25_OnlySuccessReachesSynthesis ==
    SynthesisStarted =>
        /\ \A text \in ConsultantTexts :
                InPrompt(text) =>
                    \E t \in Tasks : PoolStatus(p_pool, t) = "success" /\ PoolThought(p_pool, t) = <<text>>
        /\ (\A t \in Tasks : PoolStatus(p_pool, t) # "success") => ~InPrompt(UseOtherModels)

\* C26: role identity is kept in every order of completion. Each status is
\* always one of success, error, empty, skipped; the status and the thought
\* recorded for a role whose future has been collected are those its own task
\* returned; and a role whose future has not been collected still has the
\* initial status and thought, also when its worker has already finished, since
\* only the collecting loop writes them.
C26_RoleIdentity ==
    \A t \in Tasks :
        /\ PoolStatus(p_pool, t) \in {"success", "error", "empty", "skipped"}
        /\ t \in p_pool.collected =>
                /\ t_state[t] = "done"
                /\ PoolStatus(p_pool, t) = t_result[t].status
                /\ PoolThought(p_pool, t) = t_result[t].thought
        /\ t \notin p_pool.collected =>
                /\ PoolStatus(p_pool, t) = PoolStatus(NoPool, t)
                /\ PoolThought(p_pool, t) = <<>>

\* The tasks completed in the order o4-mini, claude, grok, the reverse of their
\* submission: o4-mini has been collected with its own answer, claude has
\* finished with an error text and is not collected yet, grok still runs.
C26_Witness ==
    /\ p_pc = "collect"
    /\ p_pool.collected = {"o4mini"}
    /\ p_pool.o4mini_status = "success" /\ p_pool.o4mini_thought = <<"o4-mini thought">>
    /\ t_state["claude"] = "done" /\ t_result["claude"].status = "error"
    /\ p_pool.claude45_status = "skipped"
    /\ t_state["grok"] = "running"

(***************************************************************************)
(* Router claims: the safe default                                         *)
(***************************************************************************)

\* C30: the safe default classification, and the empty classification dict as
\* well, is routed to mode research with research on, meta and strict review
\* off, X search off and no consultant role enabled; both get the same
\* configuration.
C30_SafeDefaultRouted ==
    /\ route_question_to_pipeline(EmptyDict) = route_question_to_pipeline(safe_default)
    /\ (rpc = "routed" /\ classification \in {safe_default, EmptyDict}) =>
        /\ pipeline = route_question_to_pipeline(safe_default)
        /\ pipeline.mode_name = "research"
        /\ pipeline.enable_research
        /\ ~pipeline.enable_meta /\ ~pipeline.enable_strict
        /\ ~pipeline.use_x_search
        /\ ~pipeline.use_grok /\ ~pipeline.use_claude /\ ~pipeline.use_o4_mini

\* A failed call of analyze_question_for_routing returned the safe default and
\* the router sent it to the research pipeline.
C30_Witness ==
    /\ rpc = "routed"
    /\ AnalyzeFailed(renv)
    /\ classification = safe_default
    /\ pipeline.mode_name = "research"

====
